---- MODULE Spec2Model ----
(***************************************************************************)
(* Model of the package installer of the dotfiles repository               *)
(* (src/installer): the install-method data model, the detection cache,    *)
(* the installer dispatcher and the two-lane scheduler of                  *)
(* App.stepInstallPackages.                                                *)
(*                                                                         *)
(* Strings.  A Go string is a sequence of symbols.  The symbols are the    *)
(* separators the code looks for (SP, NL, "/", "@") and words, which stand *)
(* for maximal runs of other characters and are never split: "gcc make" is *)
(* <<"gcc", SP, "make">> and the empty string is <<>>.  strings.Fields,    *)
(* strings.Split, strings.TrimSpace and strings.Join are computed on these *)
(* sequences.  Package names, targets and error texts are only compared    *)
(* for equality and are plain values.                                      *)
(*                                                                         *)
(* Spec is one run of App.stepInstallPackages: the coordinating goroutine  *)
(* and the workers of the secondary lane, on a machine whose commands      *)
(* answer as a fresh machine's do except for a bounded number of           *)
(* departures.  SpecPure is one call of FilterForTarget, of IsInstalled    *)
(* for a dnf method, or of Install, on inputs drawn from bounded sets.     *)
(***************************************************************************)
EXTENDS Integers, Sequences, FiniteSets, TLC

\* ------------------------------------------------------------------------
\* Bounds of the model
\* ------------------------------------------------------------------------

\* On a machine that may answer anything, the user selects at most this many
\* system packages and at most this many secondary packages in one run.
MaxSystem == 3

MaxSecondary == 1

\* The machine of such a run departs from a fresh one at most this often.
MaxDepartures == 1

\* On a fresh machine, the user selects at most this many secondary packages.
MaxWorkers == 5

\* The workers of a run in which a command never exits.
MaxHung == 4

\* Longest catalog drawn for the pure functions.
MaxCatalog == 3

\* Longest whitespace-joined specifier drawn for the detection functions.
MaxFields == 3

\* Most members of a catalog document drawn for LoadPackages.
MaxEntries == 2

\* Most variants populated in a method drawn for MethodName.
MaxVariants == 2

\* Most assets in a release drawn for resolveGhAssetURL.
MaxAssets == 2

\* Most results in an a.results drawn for showSummary.
MaxResults == 3

\* Most symbols in an enumeration output drawn for the parsers.
MaxOutput == 4

\* Most symbols in an identifier drawn for a go_tool or eget method.
MaxIdent == 5

\* Most packages in a slice drawn for categorizePackages.
MaxPkgs == 3

\* Most lines in an os-release file drawn for detectOS.
MaxLines == 2

\* ------------------------------------------------------------------------
\* Strings
\* ------------------------------------------------------------------------

SP == " "
NL == "\n"

IsSpace(c) == c = SP \/ c = NL

\* A one-word string.
W(word) == <<word>>

\* strings.TrimSpace
RECURSIVE TrimLeft(_)
TrimLeft(s) ==
    IF s # <<>> /\ IsSpace(Head(s)) THEN TrimLeft(Tail(s)) ELSE s

RECURSIVE TrimRight(_)
TrimRight(s) ==
    IF s # <<>> /\ IsSpace(s[Len(s)])
    THEN TrimRight(SubSeq(s, 1, Len(s) - 1))
    ELSE s

TrimSpace(s) == TrimRight(TrimLeft(s))

\* strings.Split(s, "\n"): the pieces between the separators, empty ones kept.
RECURSIVE SplitLoop(_, _, _)
SplitLoop(s, piece, acc) ==
    IF s = <<>> THEN Append(acc, piece)
    ELSE IF Head(s) = NL THEN SplitLoop(Tail(s), <<>>, Append(acc, piece))
    ELSE SplitLoop(Tail(s), Append(piece, Head(s)), acc)

SplitLines(s) == SplitLoop(s, <<>>, <<>>)

\* strings.Fields: the maximal runs of non-space symbols.
RECURSIVE FieldsLoop(_, _, _)
FieldsLoop(s, piece, acc) ==
    IF s = <<>> THEN (IF piece = <<>> THEN acc ELSE Append(acc, piece))
    ELSE IF IsSpace(Head(s))
         THEN FieldsLoop(Tail(s), <<>>,
                         IF piece = <<>> THEN acc ELSE Append(acc, piece))
    ELSE FieldsLoop(Tail(s), Append(piece, Head(s)), acc)

Fields(s) == FieldsLoop(s, <<>>, <<>>)

\* strings.Join(elems, " ")
RECURSIVE Join(_)
Join(elems) ==
    IF elems = <<>> THEN <<>>
    ELSE IF Len(elems) = 1 THEN elems[1]
    ELSE elems[1] \o <<SP>> \o Join(Tail(elems))

\* ------------------------------------------------------------------------
\* Data model (src/installer/packages.go)
\* ------------------------------------------------------------------------

\* A nil pointer (Snap *SnapSpec, Manual *ManualSpec).
Nil == [nil |-> TRUE]

\* The zero value of InstallMethod: no variant populated.
EmptyMethod ==
    [Brew |-> <<>>, Cask |-> <<>>, Apt |-> <<>>, Dnf |-> <<>>,
     UvTool |-> <<>>, Cargo |-> <<>>, GoTool |-> <<>>, Snap |-> Nil,
     Flatpak |-> <<>>, Yay |-> <<>>, GhExtension |-> <<>>, Eget |-> <<>>,
     Manual |-> Nil]

\* ManualSpec of the given type, its other fields empty.
ManualSpec(type) ==
    [Type |-> type, URL |-> <<>>, Repo |-> <<>>, AssetPattern |-> <<>>,
     Dest |-> <<>>, CheckCommand |-> <<>>, CheckDir |-> <<>>, Args |-> <<>>]

BrewMethod(s)   == [EmptyMethod EXCEPT !.Brew = s]
CaskMethod(s)   == [EmptyMethod EXCEPT !.Cask = s]
AptMethod(s)    == [EmptyMethod EXCEPT !.Apt = s]
DnfMethod(s)    == [EmptyMethod EXCEPT !.Dnf = s]
UvToolMethod(s) == [EmptyMethod EXCEPT !.UvTool = s]
CargoMethod(s)  == [EmptyMethod EXCEPT !.Cargo = s]
GoToolMethod(s) == [EmptyMethod EXCEPT !.GoTool = s]
GhExtMethod(s)  == [EmptyMethod EXCEPT !.GhExtension = s]
ManualMethod(m) == [EmptyMethod EXCEPT !.Manual = m]
EgetMethod(s)   == [EmptyMethod EXCEPT !.Eget = s]

\* A MethodName whose first two cases are exchanged.
MethodNameCaskFirst(im) ==
    IF im.Cask # <<>> THEN "cask"
    ELSE IF im.Brew # <<>> THEN "brew"
    ELSE IF im.Apt # <<>> THEN "apt"
    ELSE IF im.Dnf # <<>> THEN "dnf"
    ELSE IF im.UvTool # <<>> THEN "uv_tool"
    ELSE IF im.Cargo # <<>> THEN "cargo"
    ELSE IF im.GoTool # <<>> THEN "go_tool"
    ELSE IF im.Snap # Nil THEN "snap"
    ELSE IF im.Flatpak # <<>> THEN "flatpak"
    ELSE IF im.Yay # <<>> THEN "yay"
    ELSE IF im.GhExtension # <<>> THEN "gh_extension"
    ELSE IF im.Eget # <<>> THEN "eget"
    ELSE IF im.Manual # Nil THEN "manual"
    ELSE "unknown"

\* InstallMethod.MethodName: the first populated field, in the order of the
\* switch.
MethodName(im) ==
    IF im.Brew # <<>> THEN "brew"
    ELSE IF im.Cask # <<>> THEN "cask"
    ELSE IF im.Apt # <<>> THEN "apt"
    ELSE IF im.Dnf # <<>> THEN "dnf"
    ELSE IF im.UvTool # <<>> THEN "uv_tool"
    ELSE IF im.Cargo # <<>> THEN "cargo"
    ELSE IF im.GoTool # <<>> THEN "go_tool"
    ELSE IF im.Snap # Nil THEN "snap"
    ELSE IF im.Flatpak # <<>> THEN "flatpak"
    ELSE IF im.Yay # <<>> THEN "yay"
    ELSE IF im.GhExtension # <<>> THEN "gh_extension"
    ELSE IF im.Eget # <<>> THEN "eget"
    ELSE IF im.Manual # Nil THEN "manual"
    ELSE "unknown"

\* InstallMethod.IsSystemMethod
IsSystemMethod(im) ==
    LET m == MethodName(im)
    IN  m = "brew" \/ m = "cask" \/ m = "apt" \/ m = "dnf"

\* The system kinds, in the order stepInstallPackages installs their batches.
SystemKinds == <<"brew", "cask", "apt", "dnf">>

\* Package{Name, Packages}: Packages is the map from OS target to method.
Package(name, packages) == [Name |-> name, Packages |-> packages]

\* PackageCatalog.FilterForTarget: the loop over c.Packages, appending the
\* packages whose map has the key.
RECURSIVE FilterLoop(_, _, _, _)
FilterLoop(pkgs, target, i, result) ==
    IF i > Len(pkgs) THEN result
    ELSE FilterLoop(pkgs, target, i + 1,
                    IF target \in DOMAIN pkgs[i].Packages
                    THEN Append(result, pkgs[i])
                    ELSE result)

\* A filter that returns the whole catalog.
FilterForTargetAll(pkgs, target) == pkgs

FilterForTarget(pkgs, target) == FilterLoop(pkgs, target, 1, <<>>)

\* ------------------------------------------------------------------------
\* Detection (src/installer/terminal.go)
\* ------------------------------------------------------------------------

\* The set of elements of a sequence.
Range(seq) == {seq[i] : i \in 1..Len(seq)}

\* A parseLines that keeps the lines as they are.
parseLinesUntrimmed(output) == Range(SplitLines(output)) \ {<<>>}

\* parseLines: the trimmed, non-empty lines of the output, as map keys.
parseLines(output) ==
    {TrimSpace(line) : line \in Range(SplitLines(output))} \ {<<>>}

\* parseFirstWord: the first field of every line that has one.
parseFirstWord(output) ==
    {Fields(line)[1] : line \in {l \in Range(SplitLines(output)) : Fields(l) # <<>>}}

\* s[strings.LastIndex(s, "/")+1:], or s when it has no "/".
RECURSIVE AfterLastSlash(_)
AfterLastSlash(s) ==
    IF \E i \in 1..Len(s) : s[i] = "/"
    THEN AfterLastSlash(Tail(s))
    ELSE s

\* strings.Contains
Contains(s, sub) ==
    \E i \in 0..(Len(s) - Len(sub)) : SubSeq(s, i + 1, i + Len(sub)) = sub

\* strings.ToLower on one symbol: the alphabet has one capitalised word.
LowerSym(c) == IF c = "Ghostty" THEN "ghostty" ELSE c

\* The key the cask loader derives from an application-directory entry:
\* strings.ToLower(strings.ReplaceAll(strings.TrimSuffix(name, ".app"), " ", "-")).
AppKey(entry) ==
    LET trimmed == IF entry # <<>> /\ entry[Len(entry)] = ".app"
                   THEN SubSeq(entry, 1, Len(entry) - 1)
                   ELSE entry
    IN  [i \in 1..Len(trimmed) |->
            LowerSym(IF trimmed[i] = SP THEN "-" ELSE trimmed[i])]

\* The kinds whose detection goes through InstalledCache.get.
CacheKinds ==
    {"brew", "cask", "apt", "dnf", "uv_tool", "cargo", "snap", "flatpak",
     "yay", "gh_extension"}

\* The key under which IsInstalled caches a kind.
CacheKey(kind) == IF kind = "gh_extension" THEN "gh_ext" ELSE kind

\* The loader IsInstalled hands to cache.get for a kind, applied to the output
\* of its enumeration command (the command's error is discarded) and, for
\* cask, to the entries of the application directories.
Loader(kind, out, apps) ==
    IF kind = "cask" THEN parseLines(out) \cup {AppKey(e) : e \in apps}
    ELSE IF kind \in {"uv_tool", "cargo", "snap"} THEN parseFirstWord(out)
    ELSE parseLines(out)

\* A lookup that takes an empty map for "unknown, assume present".
HasKeyOrEmptyMap(installed, key) == installed = {} \/ key \in installed

\* installed[key] on a map[string]bool that holds only true values.
HasKey(installed, key) == key \in installed

\* The dnf branch: every field of the specifier must be installed.
RECURSIVE DnfAllInstalled(_, _)
DnfAllInstalled(fields, installed) ==
    IF fields = <<>> THEN TRUE
    ELSE IF ~HasKey(installed, Head(fields)) THEN FALSE
    ELSE DnfAllInstalled(Tail(fields), installed)

\* A dnf branch that looks the whole specifier up as one key.
DnfInstalledWholeKey(spec, installed) == spec \in installed

DnfInstalled(spec, installed) == DnfAllInstalled(Fields(spec), installed)

\* The answer of IsInstalled for a cache-backed kind, from the cached set.
IsInstalledIn(method, installed) ==
    LET m == MethodName(method)
    IN  CASE m = "brew"    -> HasKey(installed, method.Brew)
          [] m = "cask"    -> HasKey(installed, method.Cask)
          [] m = "apt"     -> HasKey(installed, method.Apt)
          [] m = "dnf"     -> DnfInstalled(method.Dnf, installed)
          [] m = "uv_tool" -> HasKey(installed, method.UvTool)
          [] m = "cargo"   -> HasKey(installed, method.Cargo)
          [] m = "snap"    -> HasKey(installed, method.Snap.Name)
          [] m = "flatpak" -> HasKey(installed, method.Flatpak)
          [] m = "yay"     -> HasKey(installed, method.Yay)
          [] m = "gh_extension" ->
                \E entry \in installed :
                    Contains(entry, AfterLastSlash(method.GhExtension))
          [] OTHER -> FALSE

\* ------------------------------------------------------------------------
\* The catalog and the environment of the install step
\* ------------------------------------------------------------------------

\* OSInfo.Target values of the runs.
Targets == {"darwin", "fedora", "ubuntu", "linux"}

GccMake == <<"gcc", SP, "make">>

\* PackageCatalog.Packages as LoadPackages leaves it: sorted by name.
Catalog ==
    << Package("atuin", [t \in {"darwin", "fedora", "ubuntu"} |->
            CargoMethod(W("atuin"))]),
       Package("bat", [t \in Targets |->
            CASE t = "darwin" -> BrewMethod(W("bat"))
              [] t = "fedora" -> DnfMethod(W("bat"))
              [] t = "ubuntu" -> AptMethod(W("bat"))
              [] t = "linux"  -> AptMethod(W("bat"))]),
       Package("bottom", [t \in {"darwin"} |-> CargoMethod(W("bottom"))]),
       Package("devtools", [t \in {"fedora", "ubuntu"} |->
            IF t = "fedora" THEN DnfMethod(GccMake) ELSE AptMethod(GccMake)]),
       Package("fd", [t \in {"darwin", "fedora"} |-> BrewMethod(W("fd"))]),
       Package("gh-dash", [t \in {"darwin", "fedora"} |->
            GhExtMethod(<<"dlvhdr", "/", "gh-dash">>)]),
       Package("ghostty", [t \in {"darwin"} |-> CaskMethod(W("ghostty"))]),
       Package("lazygit", [t \in {"darwin"} |->
            GoToolMethod(<<"github.com", "/", "lazygit", "@", "latest">>)]),
       Package("mystery", [t \in {"darwin"} |-> EmptyMethod]),
       Package("zebar", [t \in {"darwin"} |-> ManualMethod(ManualSpec("dmg"))]) >>

\* PackageCatalog.BrewTaps
BrewTaps == << <<"homebrew", "/", "cask-fonts">>, <<"charmbracelet", "/", "tap">> >>

\* What an enumeration command can print when it exits zero.
EnumOutputs(kind) ==
    CASE kind = "brew"  -> { <<>>, <<"bat", NL>>, <<"bat", NL, "fd", NL>> }
      [] kind = "cask"  -> { <<>>, <<"ghostty", NL>> }
      [] kind = "apt"   -> { <<>>, <<"bat", NL, "gcc", NL, "make", NL>> }
      [] kind = "dnf"   -> { <<>>, <<"gcc", NL>>, <<"bat", NL, "gcc", NL, "make", NL>> }
      [] kind = "cargo" -> { <<>>, <<"atuin", SP, "v18:", NL, SP, "atuin", NL>> }
      [] kind = "gh_extension" ->
            { <<>>, <<"gh", SP, "dash", SP, "dlvhdr", "/", "gh-dash", SP, "v4", NL>> }
      [] OTHER -> { <<>> }

\* What it can print when it exits non-zero: nothing, a message, or the part
\* of the list it got to (CombinedOutput returns stdout and stderr).
EnumFailOutputs(kind) ==
    CASE kind \in {"brew", "dnf"} -> { <<>>, <<"Error:", SP, "failed", NL>>, <<"bat", NL>> }
      [] kind = "cargo" -> { <<"Error:", SP, "failed", NL>> }
      [] OTHER -> { <<>> }

\* What os.ReadDir can find in the application directories.
AppDirs(kind) ==
    IF kind = "cask" THEN { {}, { <<"Ghostty", ".app">> } } ELSE { {} }

\* The outcomes of one run of a kind's enumeration: output, exit and
\* directory entries.
EnumResults(kind) ==
    { [out |-> o, err |-> FALSE, apps |-> a] :
          o \in EnumOutputs(kind), a \in AppDirs(kind) }
    \cup
    { [out |-> o, err |-> TRUE, apps |-> a] :
          o \in EnumFailOutputs(kind), a \in AppDirs(kind) }

\* ------------------------------------------------------------------------
\* The installer dispatcher (PackageInstaller.Install, installManual)
\* ------------------------------------------------------------------------

\* err.Error() of a command that exited non-zero.
ExitErr == "exit status 1"

\* A nil error.
NoError == <<>>

\* InstallResult{Name, Method, Status, Error}
InstallResult(name, method, status, error) ==
    [Name |-> name, Method |-> method, Status |-> status, Error |-> error]

\* One step of an install action: a command or a check, whether its failure
\* is returned, and the text the action wraps the failure in.
Step(name, propagates, text) ==
    [name |-> name, propagates |-> propagates, text |-> text]

\* A command whose error the action returns as it is.
Cmd(name) == Step(name, TRUE, <<ExitErr>>)

\* A command whose error the action wraps: fmt.Errorf("<prefix>: %w", err).
Wrapped(name, prefix) == Step(name, TRUE, <<prefix, ExitErr>>)

\* A check the action fails with a message of its own.
Check(name, message) == Step(name, TRUE, <<message>>)

\* A command whose error the action discards.
Ignored(name) == Step(name, FALSE, NoError)

\* resolveGhAssetURL: the release query, then the empty-URL check.
ResolveSteps ==
    << Wrapped("resolve", "gh release view: "), Check("asset", "no asset matching") >>

\* installManual and the installers it calls: the steps of each manual type
\* in the order they run.
ManualSteps(manual) ==
    CASE manual.Type = "script" -> << Cmd("install") >>
      [] manual.Type = "git_clone" -> << Ignored("expand"), Cmd("install") >>
      [] manual.Type = "dmg" ->
            ResolveSteps \o
            << Wrapped("download", "download dmg: "),
               Wrapped("mount", "mount dmg: "),
               Check("mountpoint", "could not determine dmg mount point"),
               Check("findapp", "no .app found in dmg"),
               Wrapped("copy", "copy app: "),
               Ignored("detach") >>
      [] manual.Type = "deb" ->
            ResolveSteps \o << Wrapped("download", "download deb: "), Cmd("install") >>
      [] manual.Type = "rpm" ->
            ResolveSteps \o << Wrapped("download", "download rpm: "), Cmd("install") >>
      [] manual.Type = "appimage" ->
            ResolveSteps \o
            << Ignored("expand"), Wrapped("download", "download appimage: "),
               Cmd("install") >>
      [] OTHER -> << Check("type", "unknown manual type") >>

\* The steps of the install action Install runs for a method.
ActionSteps(method) ==
    IF MethodName(method) = "manual" THEN ManualSteps(method.Manual)
    ELSE << Cmd("install") >>

\* The names of the steps of an action.
StepNames(steps) == {steps[i].name : i \in 1..Len(steps)}

\* The sets of failing steps of one run of an action: none, or one step.
FailureSets(steps) == {{}} \cup {{n} : n \in StepNames(steps)}

\* The error an action returns when the steps in fails fail: that of the
\* first failing step whose error is returned.  An unknown manual type
\* always fails.
RECURSIVE RunAction(_, _)
RunAction(steps, fails) ==
    IF steps = <<>> THEN NoError
    ELSE IF Head(steps).propagates
            /\ (Head(steps).name \in fails \/ Head(steps).name = "type")
         THEN Head(steps).text
    ELSE RunAction(Tail(steps), fails)

\* A dispatcher that reports every finished action as done.
ResultOfErrorAlwaysDone(name, methodName, err) ==
    InstallResult(name, methodName, "done", NoError)

\* Install, lines 381-384: the result for the error of the action.
ResultOfError(name, methodName, err) ==
    IF err # NoError
    THEN InstallResult(name, methodName, "fail", err)
    ELSE InstallResult(name, methodName, "done", NoError)

\* A pre-check whose outcome is not looked at.
GhAuthIgnored(m, authFails) == FALSE

\* Lines 367-370: the gh_extension case stops when `gh auth status` exits
\* non-zero.
GhNotAuthenticated(m, authFails) == m = "gh_extension" /\ authFails

\* Install after detection said "not installed": the dispatch switch.  authFails
\* is the outcome of `gh auth status`, fails the steps of the action that fail.
Dispatch(name, method, authFails, fails) ==
    LET m == MethodName(method)
    IN  IF m = "unknown"
        THEN InstallResult(name, m, "skip", <<"unknown method">>)
        ELSE IF GhNotAuthenticated(m, authFails)
        THEN InstallResult(name, m, "skip", <<"gh not authenticated">>)
        ELSE ResultOfError(name, m, RunAction(ActionSteps(method), fails))

\* Whether the dispatch switch runs an install action for the method.
RunsAction(method, authFails) ==
    /\ MethodName(method) # "unknown"
    /\ ~GhNotAuthenticated(MethodName(method), authFails)

\* A missing method that is reported as a failure.
MissingMethodFails(name) == InstallResult(name, "n/a", "fail", <<"no method">>)

\* Lines 330-333: the result for a package without a method for the target.
MissingMethod(name) == InstallResult(name, "n/a", "skip", NoError)

\* PackageInstaller.Install on target t.  isInstalled is what IsInstalled
\* answers for the package, authFails and fails what the commands do.
Install(pkg, t, isInstalled, authFails, fails) ==
    IF t \notin DOMAIN pkg.Packages
    THEN MissingMethod(pkg.Name)
    ELSE IF isInstalled
    THEN InstallResult(pkg.Name, MethodName(pkg.Packages[t]), "ok", NoError)
    ELSE Dispatch(pkg.Name, pkg.Packages[t], authFails, fails)

\* What a call of Install calls and runs before it returns, in order:
\* "IsInstalled" for the detection, "gh auth status" for the pre-check of
\* the gh_extension case, "install action" for the commands of the case of
\* the switch.
InstallCalls(pkg, t, isInstalled, authFails) ==
    IF t \notin DOMAIN pkg.Packages THEN <<>>
    ELSE IF isInstalled THEN <<"IsInstalled">>
    ELSE <<"IsInstalled">>
         \o (IF MethodName(pkg.Packages[t]) = "gh_extension"
             THEN <<"gh auth status">> ELSE <<>>)
         \o (IF RunsAction(pkg.Packages[t], authFails)
             THEN <<"install action">> ELSE <<>>)

\* ------------------------------------------------------------------------
\* State
\* ------------------------------------------------------------------------

VARIABLES
    budget,     \* how often the machine may still depart from a fresh one
    target,     \* a.osInfo.Target
    selected,   \* a.selected: the names the user selected
    pc,         \* where stepInstallPackages is
    phase,      \* index into PhaseOrder while pc = "lanes"
    idx,        \* index of the loop the step is in
    ret,        \* "running", or what stepInstallPackages returned: "nil", "err"
    results,    \* a.results
    pending,    \* per system kind, the specifiers and names still to install
    cache,      \* InstalledCache.cache: key -> set of installed keys
    cacheMu,    \* holder of InstalledCache.mu
    sem,        \* the workers holding a slot of the semaphore channel
    wpc,        \* per package, where its secondary worker is
    wres,       \* per package, the result its worker's Install returned
    loads,      \* history: per cache key, how often its loader ran
    enumErr,    \* history: per cache key, how its enumeration command exited
    detected,   \* history: per package, what IsInstalled answered in this step
    attempts,   \* history: per package, how often Install reached its dispatch
    log,        \* history: the commands the step itself issued, in order
    pureIn,     \* input of the pure function under check
    pureOut,    \* its output
    now,        \* timed lane: the clock, in ticks
    tpc,        \* timed lane: per goroutine of lines 765-787, where it is
    tleft,      \* timed lane: per goroutine, the ticks its install still takes
    hung        \* the worker and the command of it that never exits, if any

orchVars ==
    <<budget, target, selected, pc, phase, idx, ret, results, pending, cache, cacheMu,
      sem, wpc, wres, loads, enumErr, detected, attempts, log, hung>>

pureVars == <<pureIn, pureOut>>

timedVars == <<now, tpc, tleft>>

vars == <<orchVars, pureVars, timedVars>>

\* ------------------------------------------------------------------------
\* Derived values of stepInstallPackages
\* ------------------------------------------------------------------------

Names == {Catalog[i].Name : i \in 1..Len(Catalog)}

CacheKeys == {CacheKey(k) : k \in CacheKinds}

NoWorker == "none"

\* A fresh machine has brew, has nothing installed, and runs every command
\* with success.  The machine of a run departs from that at most budget
\* times: while departures are left an outcome is any of outcomes, afterwards
\* it is the fresh machine's.
Among(left, outcomes, default) == IF left > 0 THEN outcomes ELSE {default}

\* 1 for an outcome that departs from the fresh machine's, else 0.
Cost(departs) == IF departs THEN 1 ELSE 0

\* The enumeration of a kind on a fresh machine.
FreshEnum == [out |-> <<>>, err |-> FALSE, apps |-> {}]

\* The loop `for _, pkg := range pkgs { if <pkg is wanted> { append } }`:
\* the packages of pkgs whose name is in keep, in the order of pkgs.
RECURSIVE SelectLoop(_, _, _, _)
SelectLoop(pkgs, keep, i, result) ==
    IF i > Len(pkgs) THEN result
    ELSE SelectLoop(pkgs, keep, i + 1,
                    IF pkgs[i].Name \in keep THEN Append(result, pkgs[i]) ELSE result)

\* toInstall, lines 559-567: the target's packages the user selected.
ToInstall == SelectLoop(FilterForTarget(Catalog, target), selected, 1, <<>>)

MethodOf(pkg) == pkg.Packages[target]

\* A loop without the test of line 755.
SecondaryAll == ToInstall

\* secondary, lines 752-758.
Secondary ==
    LET notSystem == {pkg.Name : pkg \in {q \in Range(ToInstall) :
                                              ~IsSystemMethod(MethodOf(q))}}
    IN  SelectLoop(ToInstall, notSystem, 1, <<>>)

\* The package of the catalog with the given name.
PackageNamed(name) ==
    CHOOSE pkg \in Range(Catalog) : pkg.Name = name

\* The lanes in the order the step runs them: the four batches, then the
\* secondary lane.
PhaseOrderSecondaryFirst == <<"secondary", "brew", "cask", "apt", "dnf">>

\* The lanes with the cask batch ahead of the brew batch.
PhaseOrderCaskFirst == <<"cask", "brew", "apt", "dnf", "secondary">>

PhaseOrder == <<"brew", "cask", "apt", "dnf", "secondary">>

NoPending == [k \in Range(SystemKinds) |-> [specs |-> <<>>, names |-> <<>>]]

NoResult == InstallResult("", "", "", NoError)

\* ------------------------------------------------------------------------
\* Initial state
\* ------------------------------------------------------------------------

NoPure == [op |-> "none"]

\* No timed lane.
NoTimed ==
    /\ now = 0
    /\ tpc = <<>>
    /\ tleft = <<>>

\* Every external command of the run exits.
NoHang == [worker |-> NoWorker, cmd |-> "none"]

\* Command cmd ("enum" or "install") of worker w is the one that never exits.
NeverExits(w, cmd) == hung = [worker |-> w, cmd |-> cmd]

\* A fresh App and PackageInstaller on a machine where the command h, if any,
\* never exits.
InitRun(b, t, sel, at, h) ==
    /\ hung = h
    /\ budget = b
    /\ target = t
    /\ selected = sel
    /\ pc = at
    /\ phase = 0
    /\ idx = 0
    /\ ret = "running"
    /\ results = <<>>
    /\ pending = NoPending
    /\ cache = [k \in {} |-> {}]
    /\ cacheMu = NoWorker
    /\ sem = {}
    /\ wpc = [n \in Names |-> "unspawned"]
    /\ wres = [n \in Names |-> NoResult]
    /\ loads = [k \in CacheKeys |-> 0]
    /\ enumErr = [k \in CacheKeys |-> "none"]
    /\ detected = [n \in Names |-> "none"]
    /\ attempts = [n \in Names |-> 0]
    /\ log = <<>>

\* A fresh App and PackageInstaller on a machine where every command exits.
InitOrch(b, t, sel, at) == InitRun(b, t, sel, at, NoHang)

\* The names of the packages that have a method for target t.
NamesFor(t) ==
    {Catalog[i].Name : i \in {j \in 1..Len(Catalog) : t \in DOMAIN Catalog[j].Packages}}

\* The names of the first j secondary packages of target t, in catalog order.
SecondaryPrefix(t, j) ==
    LET forTarget == FilterForTarget(Catalog, t)
        notSystem == {pkg.Name : pkg \in {q \in Range(forTarget) :
                                              ~IsSystemMethod(q.Packages[t])}}
        sec == SelectLoop(forTarget, notSystem, 1, <<>>)
    IN  {sec[i].Name : i \in 1..(IF j < Len(sec) THEN j ELSE Len(sec))}

\* The names of the system packages of target t.
SystemNames(t) ==
    {n \in NamesFor(t) : IsSystemMethod(PackageNamed(n).Packages[t])}

\* The selections of the runs: at most maxSys system packages and the first
\* secondary packages of the target, at most maxSec of them.
Selections(t, maxSys, maxSec) ==
    {sys \cup SecondaryPrefix(t, j) :
        sys \in {s \in SUBSET SystemNames(t) : Cardinality(s) <= maxSys},
        j \in 0..maxSec}

\* A fresh App and PackageInstaller with a target and a selection: before
\* the wizard's steps on a machine that may depart from a fresh one, or at
\* stepInstallPackages, after a wizard that did not query the installer, with
\* more secondary packages than the semaphore has slots on a fresh machine.
Init ==
    /\ \/ \E t \in Targets : \E sel \in Selections(t, MaxSystem, MaxSecondary) :
             InitOrch(MaxDepartures, t, sel, "proton")
       \/ \E j \in 0..MaxWorkers :
             InitOrch(0, "darwin", SecondaryPrefix("darwin", j), "start")
    /\ pureIn = NoPure
    /\ pureOut = NoPure
    /\ NoTimed

\* ------------------------------------------------------------------------
\* stepInstallPackages: the steps of the coordinating goroutine
\* ------------------------------------------------------------------------

\* Lines 559-572: nothing selected for the target returns at once.
Start ==
    /\ pc = "start"
    /\ IF ToInstall = <<>>
       THEN pc' = "done" /\ ret' = "nil"
       ELSE pc' = "confirm" /\ ret' = ret
    /\ UNCHANGED <<budget, target, selected, phase, idx, results, pending, cache, cacheMu,
                   sem, wpc, wres, loads, enumErr, detected, attempts, log>>
    /\ UNCHANGED <<pureVars, timedVars, hung>>

\* A command of the step itself, as the log keeps it.  names lists the
\* packages whose specifiers a batched install was built from.
LogEntry(cmd, kind, args, names, err) ==
    [cmd |-> cmd, kind |-> kind, args |-> args, names |-> names, err |-> err]

\* A step that goes on whatever the user answered.
ConfirmedAlways(answer) == TRUE

\* Line 581: `confirmed` is true when the user chose "Yes" (forms.go 48-62).
ConfirmedBy(answer) == answer = "yes"

\* Lines 574-584: ConfirmStep returns (confirmed, err); the log keeps the
\* answer.
Confirm ==
    /\ pc = "confirm"
    /\ \E answer \in {"yes", "skip", "error"} :
         /\ log' = Append(log, LogEntry("confirm", answer, <<>>, <<>>, FALSE))
         /\ IF answer = "error" THEN pc' = "done" /\ ret' = "err"
            ELSE IF ConfirmedBy(answer) THEN pc' = "taps" /\ ret' = ret
            ELSE pc' = "done" /\ ret' = "nil"
    /\ UNCHANGED <<budget, target, selected, phase, idx, results, pending, cache, cacheMu,
                   sem, wpc, wres, loads, enumErr, detected, attempts>>
    /\ UNCHANGED <<pureVars, timedVars, hung>>

\* A loop that registers the taps from the last to the first.
TapCommandsReversed(taps) ==
    [i \in 1..Len(taps) |->
        LogEntry("tap", "brew", taps[Len(taps) + 1 - i], <<>>, FALSE)]

\* Lines 593-597: the loop over the taps, one `brew tap` each.
TapCommands(taps) ==
    [i \in 1..Len(taps) |-> LogEntry("tap", "brew", taps[i], <<>>, FALSE)]

\* The commands with the one at position failing, if any, exiting non-zero.
WithFailure(cmds, failing) ==
    [i \in 1..Len(cmds) |-> [cmds[i] EXCEPT !.err = (i = failing)]]

\* Lines 586-608: commandExists("brew"), logged with err set when brew is
\* not found, then `brew tap` for every tap when brew exists.  A failing tap
\* sets tapErr, which only changes what is printed.
Taps ==
    /\ pc = "taps"
    /\ \E brewExists \in Among(budget, BOOLEAN, TRUE) :
         \E failing \in IF brewExists
                         THEN Among(budget, 0..Len(BrewTaps), 0) ELSE {0} :
            /\ budget' = budget - Cost(~brewExists) - Cost(failing # 0)
            /\ log' = Append(log, LogEntry("lookpath", "brew", <<>>, <<>>, ~brewExists))
                       \o (IF brewExists /\ Len(BrewTaps) > 0
                           THEN WithFailure(TapCommands(BrewTaps), failing) ELSE <<>>)
    /\ pc' = "refresh"
    /\ UNCHANGED <<target, selected, phase, idx, ret, results, pending, cache,
                   cacheMu, sem, wpc, wres, loads, enumErr, detected, attempts>>
    /\ UNCHANGED <<pureVars, timedVars, hung>>

\* A step that updates no package list.
RefreshKindNone(t) == ""

\* Lines 611-621: the manager whose package list is updated on a target, ""
\* when there is none: `sudo apt update` on ubuntu and pop_os, `sudo dnf
\* check-update` on fedora, nothing on darwin and on the targets the switch
\* has no case for.
RefreshKind(t) ==
    IF t = "darwin" THEN ""
    ELSE IF t \in {"ubuntu", "pop_os"} THEN "apt"
    ELSE IF t = "fedora" THEN "dnf"
    ELSE ""

\* Lines 610-623: the package-list update of the Linux targets; its error is
\* discarded.
Refresh ==
    /\ pc = "refresh"
    /\ IF RefreshKind(target) # ""
       THEN \E err \in Among(budget, BOOLEAN, FALSE) :
              /\ budget' = budget - Cost(err)
              /\ log' = Append(log, LogEntry("update", RefreshKind(target), <<>>, <<>>,
                                             err))
       ELSE UNCHANGED <<budget, log>>
    /\ pc' = "detect"
    /\ idx' = 1
    /\ UNCHANGED <<target, selected, phase, ret, results, pending, cache, cacheMu,
                   sem, wpc, wres, loads, enumErr, detected, attempts>>
    /\ UNCHANGED <<pureVars, timedVars, hung>>

\* A store that replaces the whole map by the one entry.
CacheWithReset(key, installed) == [k \in {key} |-> installed]

\* The cache with key set to installed.
CacheWith(key, installed) ==
    [k \in DOMAIN cache \cup {key} |-> IF k = key THEN installed ELSE cache[k]]

\* The cask of line 158.
ProtonPass == W("proton-pass")

\* Run, lines 70-99: the wizard's steps before stepInstallPackages.  Only
\* stepInstallProtonPass uses the installer.  On darwin it asks IsInstalled
\* for the cask proton-pass when pass-cli exists (line 158) and again once
\* the user confirmed (line 171), which memoizes the cask set, and it installs
\* the cask when the answer is no; the exit status of that command only
\* chooses the line printed.  A step that returns an error ends the run
\* before stepInstallPackages.
stepInstallProtonPass ==
    /\ pc = "proton"
    /\ \/ /\ pc' = "aborted"
          /\ UNCHANGED <<budget, cache, loads, enumErr, log>>
       \/ /\ pc' = "start"
          /\ IF target # "darwin"
             THEN UNCHANGED <<budget, cache, loads, enumErr, log>>
             ELSE \E cliExists \in Among(budget, BOOLEAN, FALSE) :
                    \E r \in Among(budget - Cost(cliExists), EnumResults("cask"), FreshEnum) :
                      \E confirmed \in BOOLEAN :
                        LET installed == Loader("cask", r.out, r.apps)
                            present == IsInstalledIn(CaskMethod(ProtonPass), installed)
                            asks == ~cliExists \/ ~present
                            queried == cliExists \/ (asks /\ confirmed)
                            installs == asks /\ confirmed /\ ~present
                        IN  /\ queried \/ r = FreshEnum
                            /\ budget' = budget - Cost(cliExists) - Cost(r # FreshEnum)
                            /\ IF queried
                               THEN /\ cache' = CacheWith("cask", installed)
                                    /\ loads' = [loads EXCEPT !["cask"] = @ + 1]
                                    /\ enumErr' = [enumErr EXCEPT
                                                     !["cask"] = IF r.err THEN "fail" ELSE "ok"]
                               ELSE UNCHANGED <<cache, loads, enumErr>>
                            /\ log' = IF installs
                                      THEN Append(log, LogEntry("wizard", "cask", <<ProtonPass>>,
                                                                <<"proton-pass">>, FALSE))
                                      ELSE log
    /\ UNCHANGED <<target, selected, phase, idx, ret, results, pending, cacheMu, sem,
                   wpc, wres, detected, attempts>>
    /\ UNCHANGED <<pureVars, timedVars, hung>>

\* A detection loop without the `continue` of line 644.
BucketAlways(bucket, isInstalled, item) == Append(bucket, item)

\* Lines 641-659: a package joins its kind's lists unless it is installed.
Bucket(bucket, isInstalled, item) ==
    IF isInstalled THEN bucket ELSE Append(bucket, item)

\* The specifier of a system method.
SystemSpec(method) ==
    CASE MethodName(method) = "brew" -> method.Brew
      [] MethodName(method) = "cask" -> method.Cask
      [] MethodName(method) = "apt"  -> method.Apt
      [] MethodName(method) = "dnf"  -> method.Dnf

\* The rest of one iteration of the detection loop, once IsInstalled answered.
Classify(pkg, isInstalled) ==
    LET method == MethodOf(pkg)
        k == MethodName(method)
    IN  /\ detected' = [detected EXCEPT ![pkg.Name] = IF isInstalled THEN "yes" ELSE "no"]
        /\ results' = IF isInstalled
                      THEN Append(results, InstallResult(pkg.Name, k, "ok", NoError))
                      ELSE results
        /\ pending' = [pending EXCEPT
                         ![k] = [specs |-> Bucket(@.specs, isInstalled, SystemSpec(method)),
                                 names |-> Bucket(@.names, isInstalled, pkg.Name)]]

\* Lines 636-660: one iteration of the detection loop.  IsInstalled goes
\* through cache.get, which runs the kind's loader on the first query.
Detect ==
    /\ pc = "detect"
    /\ idx <= Len(ToInstall)
    /\ LET pkg == ToInstall[idx]
           method == MethodOf(pkg)
           key == CacheKey(MethodName(method))
       IN  IF ~IsSystemMethod(method)
           THEN UNCHANGED <<budget, results, pending, cache, loads, enumErr, detected>>
           ELSE IF key \in DOMAIN cache
           THEN /\ Classify(pkg, IsInstalledIn(method, cache[key]))
                /\ UNCHANGED <<budget, cache, loads, enumErr>>
           ELSE \E r \in Among(budget, EnumResults(MethodName(method)), FreshEnum) :
                  LET installed == Loader(MethodName(method), r.out, r.apps)
                  IN  /\ budget' = budget - Cost(r # FreshEnum)
                      /\ cache' = CacheWith(key, installed)
                      /\ loads' = [loads EXCEPT ![key] = @ + 1]
                      /\ enumErr' = [enumErr EXCEPT ![key] = IF r.err THEN "fail" ELSE "ok"]
                      /\ Classify(pkg, IsInstalledIn(method, installed))
    /\ idx' = idx + 1
    /\ UNCHANGED <<target, selected, pc, phase, ret, cacheMu, sem, wpc, wres,
                   attempts, log>>
    /\ UNCHANGED <<pureVars, timedVars, hung>>

\* The end of the detection loop: on to the first lane.
DetectDone ==
    /\ pc = "detect"
    /\ idx > Len(ToInstall)
    /\ pc' = "lanes"
    /\ phase' = 1
    /\ UNCHANGED <<budget, target, selected, idx, ret, results, pending, cache, cacheMu,
                   sem, wpc, wres, loads, enumErr, detected, attempts, log>>
    /\ UNCHANGED <<pureVars, timedVars, hung>>

\* The step moves to its next lane, or returns nil after the last one.
Advance ==
    IF phase = Len(PhaseOrder)
    THEN pc' = "done" /\ ret' = "nil" /\ phase' = phase
    ELSE pc' = "lanes" /\ ret' = ret /\ phase' = phase + 1

\* A batch whose error makes the step return.
BatchErrorReturnsErr(installErr) == installErr

\* Lines 677-685 (and the three blocks after it): the error of a batch only
\* picks the status of its packages; the step goes on.
BatchErrorReturns(installErr) == FALSE

\* A batch that installs only the first specifier.
BatchArgsFirstOnly(specs) == specs[1]

\* BatchInstallBrew/Cask/Apt/Dnf: the specifiers joined by spaces.
BatchArgs(specs) == Join(specs)

\* A loop in which the batch's error marks only its first package.
BatchStatusFirstOnly(installErr, i) == IF installErr /\ i = 1 THEN "fail" ELSE "done"

\* Lines 677-685 (and the three blocks after it): every iteration of the loop
\* over the names tests the one installErr of the batch.
BatchStatus(installErr, i) == IF installErr THEN "fail" ELSE "done"

\* Lines 668-746: the batch of one system kind.
BatchInstall(k) ==
    /\ pc = "lanes"
    /\ PhaseOrder[phase] = k
    /\ IF Len(pending[k].specs) > 0
       THEN \E installErr \in Among(budget, BOOLEAN, FALSE) :
              /\ budget' = budget - Cost(installErr)
              /\ log' = Append(log, LogEntry("install", k, BatchArgs(pending[k].specs),
                                             pending[k].names, installErr))
              /\ results' = results \o
                    [i \in 1..Len(pending[k].names) |->
                        InstallResult(pending[k].names[i], k,
                                      BatchStatus(installErr, i), NoError)]
              /\ IF BatchErrorReturns(installErr)
                 THEN pc' = "done" /\ ret' = "err" /\ phase' = phase
                 ELSE Advance
       ELSE /\ Advance
            /\ UNCHANGED <<budget, log, results>>
    /\ UNCHANGED <<target, selected, idx, pending, cache, cacheMu, sem, wpc, wres,
                   loads, enumErr, detected, attempts>>
    /\ UNCHANGED <<pureVars, timedVars, hung>>

\* Lines 748-788: the secondary packages are collected and, when there are
\* any, one goroutine per package is started (wg.Add(1) and the go
\* statement).  A goroutine that has not run yet has no effect, so the loop is
\* one step.
StartSecondary ==
    /\ pc = "lanes"
    /\ PhaseOrder[phase] = "secondary"
    /\ IF Len(Secondary) > 0
       THEN /\ wpc' = [n \in Names |->
                        IF \E i \in 1..Len(Secondary) : Secondary[i].Name = n
                        THEN "spawned" ELSE wpc[n]]
            /\ pc' = "wait"
            /\ UNCHANGED <<phase, ret>>
       ELSE /\ Advance
            /\ wpc' = wpc
    /\ UNCHANGED <<budget, target, selected, idx, results, pending, cache, cacheMu,
                   sem, wres, loads, enumErr, detected, attempts, log>>
    /\ UNCHANGED <<pureVars, timedVars, hung>>

\* A wait that returns at once.
WorkersDoneNoWait == TRUE

\* The WaitGroup counter is zero: every goroutine started at lines 765-787
\* has run its deferred wg.Done.
WorkersDone == \A n \in Names : wpc[n] \in {"unspawned", "done"}

\* Line 789: wg.Wait returns when every worker has called wg.Done.
Wait ==
    /\ pc = "wait"
    /\ WorkersDone
    /\ Advance
    /\ UNCHANGED <<budget, target, selected, idx, results, pending, cache, cacheMu, sem,
                   wpc, wres, loads, enumErr, detected, attempts, log>>
    /\ UNCHANGED <<pureVars, timedVars, hung>>

\* ------------------------------------------------------------------------
\* stepInstallPackages: the workers of the secondary lane
\* ------------------------------------------------------------------------

\* make(chan struct{}, 4), line 763.
SemCap == 4

\* A send that also succeeds on a full channel.
SemHasRoomOffByOne == Cardinality(sem) <= SemCap

\* `sem <- struct{}{}` can proceed.
SemHasRoom == Cardinality(sem) < SemCap

\* A cache.get that does not take the mutex.
CacheMuFreeNoLock == TRUE

\* c.mu.Lock() can proceed.
CacheMuFree == cacheMu = NoWorker

\* Line 769: the worker takes a slot and calls Install.
Acquire(w) ==
    /\ wpc[w] = "spawned"
    /\ SemHasRoom
    /\ sem' = sem \cup {w}
    /\ wpc' = [wpc EXCEPT ![w] = "install"]
    /\ UNCHANGED <<budget, target, selected, pc, phase, idx, ret, results, pending, cache,
                   cacheMu, wres, loads, enumErr, detected, attempts, log>>
    /\ UNCHANGED <<pureVars, timedVars, hung>>

\* Install from line 337 on, once IsInstalled answered: the result it
\* returns.  The outcome of the commands of the action is any; Install
\* returns only when its command exits (runCmd waits for it).
InstallBody(w, isInstalled, left) ==
    LET method == MethodOf(PackageNamed(w))
    IN  /\ isInstalled \/ ~NeverExits(w, "install")
        /\ detected' = [detected EXCEPT ![w] = IF isInstalled THEN "yes" ELSE "no"]
        /\ wpc' = [wpc EXCEPT ![w] = "record"]
        /\ IF isInstalled
           THEN /\ wres' = [wres EXCEPT
                              ![w] = Install(PackageNamed(w), target, TRUE, FALSE, {})]
                /\ attempts' = attempts
                /\ budget' = left
           ELSE /\ attempts' = [attempts EXCEPT ![w] = @ + 1]
                /\ \E authFails \in IF MethodName(method) = "gh_extension"
                                     THEN Among(left, BOOLEAN, FALSE) ELSE {FALSE} :
                     \E fails \in Among(left - Cost(authFails),
                                        FailureSets(ActionSteps(method)), {}) :
                        /\ wres' = [wres EXCEPT
                                      ![w] = Install(PackageNamed(w), target, FALSE,
                                                     authFails, fails)]
                        /\ budget' = left - Cost(authFails) - Cost(fails # {})

\* IsInstalled of a kind that probes the file system (go_tool, eget, manual,
\* and the fallback for an unknown method) and the rest of Install.
InstallDirect(w) ==
    /\ wpc[w] = "install"
    /\ MethodName(MethodOf(PackageNamed(w))) \notin CacheKinds
    /\ \E exists \in Among(budget, BOOLEAN, FALSE) :
         InstallBody(w, exists, budget - Cost(exists))
    /\ UNCHANGED <<target, selected, pc, phase, idx, ret, results, pending, cache,
                   cacheMu, sem, loads, enumErr, log>>
    /\ UNCHANGED <<pureVars, timedVars, hung>>

\* InstalledCache.get, lines 139-144: the lock and the lookup.  On a hit the
\* cached set answers and Install goes on; on a miss the loader starts with
\* the mutex held.
CacheEnter(w) ==
    /\ wpc[w] = "install"
    /\ MethodName(MethodOf(PackageNamed(w))) \in CacheKinds
    /\ CacheMuFree
    /\ LET method == MethodOf(PackageNamed(w))
           key == CacheKey(MethodName(method))
       IN  IF key \in DOMAIN cache
           THEN /\ InstallBody(w, IsInstalledIn(method, cache[key]), budget)
                /\ UNCHANGED <<cacheMu, loads>>
           ELSE /\ cacheMu' = w
                /\ loads' = [loads EXCEPT ![key] = @ + 1]
                /\ wpc' = [wpc EXCEPT ![w] = "loading"]
                /\ UNCHANGED <<budget, wres, detected, attempts>>
    /\ UNCHANGED <<target, selected, pc, phase, idx, ret, results, pending, cache,
                   sem, enumErr, log>>
    /\ UNCHANGED <<pureVars, timedVars, hung>>

\* InstalledCache.get, lines 144-146: the loader returns, its set is stored
\* and the mutex released; Install goes on.
LoaderReturn(w) ==
    /\ wpc[w] = "loading"
    /\ ~NeverExits(w, "enum")
    /\ LET method == MethodOf(PackageNamed(w))
           key == CacheKey(MethodName(method))
       IN  \E r \in Among(budget, EnumResults(MethodName(method)), FreshEnum) :
             LET installed == Loader(MethodName(method), r.out, r.apps)
             IN  /\ cache' = CacheWith(key, installed)
                 /\ enumErr' = [enumErr EXCEPT ![key] = IF r.err THEN "fail" ELSE "ok"]
                 /\ cacheMu' = NoWorker
                 /\ InstallBody(w, IsInstalledIn(method, installed),
                                budget - Cost(r # FreshEnum))
    /\ UNCHANGED <<target, selected, pc, phase, idx, ret, results, pending, sem,
                   loads, log>>
    /\ UNCHANGED <<pureVars, timedVars, hung>>

\* The install command of worker w never exits: IsInstalled answers that the
\* package is missing (probing the file system, from the memoized set, or
\* from the set its own loader returns, stored and the mutex released at
\* terminal.go 144-146), Install starts the command and never returns, so
\* the worker keeps its slot and records nothing.
InstallNeverExits(w) ==
    /\ NeverExits(w, "install")
    /\ LET method == MethodOf(PackageNamed(w))
           key == CacheKey(MethodName(method))
       IN  \/ /\ wpc[w] = "install"
              /\ MethodName(method) \notin CacheKinds
              /\ UNCHANGED <<budget, cache, cacheMu, enumErr>>
           \/ /\ wpc[w] = "install"
              /\ MethodName(method) \in CacheKinds
              /\ CacheMuFree
              /\ key \in DOMAIN cache
              /\ ~IsInstalledIn(method, cache[key])
              /\ UNCHANGED <<budget, cache, cacheMu, enumErr>>
           \/ /\ wpc[w] = "loading"
              /\ \E r \in Among(budget, EnumResults(MethodName(method)), FreshEnum) :
                   LET installed == Loader(MethodName(method), r.out, r.apps)
                   IN  /\ ~IsInstalledIn(method, installed)
                       /\ cache' = CacheWith(key, installed)
                       /\ enumErr' = [enumErr EXCEPT
                                        ![key] = IF r.err THEN "fail" ELSE "ok"]
                       /\ cacheMu' = NoWorker
                       /\ budget' = budget - Cost(r # FreshEnum)
    /\ wpc' = [wpc EXCEPT ![w] = "blocked"]
    /\ detected' = [detected EXCEPT ![w] = "no"]
    /\ attempts' = [attempts EXCEPT ![w] = @ + 1]
    /\ UNCHANGED <<target, selected, pc, phase, idx, ret, results, pending, sem, wres,
                   loads, log>>
    /\ UNCHANGED <<pureVars, timedVars, hung>>

\* A worker that starts over when its install failed.
AfterRecordRetry(result) == IF result.Status = "fail" THEN "spawned" ELSE "done"

\* Lines 766-787: the goroutine ends after it has recorded its result,
\* whatever the status.
AfterRecord(result) == "done"

\* A worker that keeps its slot when it ends.
SemKept(w) == sem

\* Line 770: the deferred receive gives the worker's slot back.
SemAfterDone(w) == sem \ {w}

\* Lines 774-786, then the deferred calls of lines 770 and 768: the result is
\* appended under the mutex, the slot is given back, wg.Done.  Nothing but
\* the append is visible to another goroutine before the slot is free, so
\* the three are one step.
Record(w) ==
    /\ wpc[w] = "record"
    /\ results' = Append(results, wres[w])
    /\ sem' = SemAfterDone(w)
    /\ wpc' = [wpc EXCEPT ![w] = AfterRecord(wres[w])]
    /\ UNCHANGED <<budget, target, selected, pc, phase, idx, ret, pending, cache, cacheMu,
                   wres, loads, enumErr, detected, attempts, log>>
    /\ UNCHANGED <<pureVars, timedVars, hung>>

\* ------------------------------------------------------------------------
\* Specification of the install step
\* ------------------------------------------------------------------------

Next ==
    \/ stepInstallProtonPass
    \/ Start
    \/ Confirm
    \/ Taps
    \/ Refresh
    \/ Detect
    \/ DetectDone
    \/ \E k \in Range(SystemKinds) : BatchInstall(k)
    \/ StartSecondary
    \/ Wait
    \/ \E w \in Names : Acquire(w)
    \/ \E w \in Names : InstallDirect(w)
    \/ \E w \in Names : CacheEnter(w)
    \/ \E w \in Names : LoaderReturn(w)
    \/ \E w \in Names : Record(w)

Spec == Init /\ [][Next]_vars

\* ------------------------------------------------------------------------
\* Specification of the install step under fair scheduling
\* ------------------------------------------------------------------------

\* The commands that may be the one that never exits in a run of the
\* selection sel on target t: the install command of a worker, or the enumeration
\* command of a worker whose kind is answered from the cache.
HangChoices(t, sel) ==
    {NoHang}
    \cup {[worker |-> w, cmd |-> "install"] : w \in sel}
    \cup {[worker |-> w, cmd |-> "enum"] :
            w \in {n \in sel : MethodName(PackageNamed(n).Packages[t]) \in CacheKinds}}

\* The runs of the worker pool on a fresh darwin machine, at
\* stepInstallPackages: those where every command exits, and those of MaxHung
\* workers with at most one command that never exits.
InitLive ==
    /\ \/ \E j \in 0..MaxWorkers :
            InitRun(0, "darwin", SecondaryPrefix("darwin", j), "start", NoHang)
       \/ \E h \in HangChoices("darwin", SecondaryPrefix("darwin", MaxHung)) :
            InitRun(0, "darwin", SecondaryPrefix("darwin", MaxHung), "start", h)
    /\ pureIn = NoPure
    /\ pureOut = NoPure
    /\ NoTimed

\* The steps of stepInstallPackages.
NextLive ==
    \/ Wait
    \/ \E w \in Names : Record(w)
    \/ \E w \in Names : Acquire(w)
    \/ \E w \in Names : InstallNeverExits(w)
    \/ \E w \in Names : InstallDirect(w)
    \/ \E w \in Names : CacheEnter(w)
    \/ \E w \in Names : LoaderReturn(w)
    \/ Start
    \/ Confirm
    \/ Taps
    \/ Refresh
    \/ Detect
    \/ DetectDone
    \/ \E k \in Range(SystemKinds) : BatchInstall(k)
    \/ StartSecondary

\* The Go scheduler runs a goroutine that can run, a channel send proceeds
\* when the channel has room and a Lock when the mutex is free: a step that
\* stays possible is taken.  A command that never exits has no step.
SpecLive == InitLive /\ [][NextLive]_vars /\ WF_vars(NextLive)

\* ------------------------------------------------------------------------
\* Specification of the functions on their own
\* ------------------------------------------------------------------------

\* The targets a drawn catalog can have methods for, and the targets asked for.
MapTargets == {"darwin", "ubuntu"}

AskedTargets == MapTargets \cup {"fedora"}

\* Package names in the order sort.Slice of LoadPackages leaves them.
SortedNames == <<"bat", "fd", "git", "jq">>

\* The indices of a set, ascending.
RECURSIVE Ascending(_)
Ascending(idxs) ==
    IF idxs = {} THEN <<>>
    ELSE LET m == CHOOSE i \in idxs : \A j \in idxs : i <= j
         IN  <<m>> \o Ascending(idxs \ {m})

\* The catalog with the names at idxs, name i having methods for keys[i].
CatalogOf(idxs, keys) ==
    LET order == Ascending(idxs)
    IN  [j \in 1..Len(order) |->
            Package(SortedNames[order[j]],
                    [t \in keys[order[j]] |-> BrewMethod(W(SortedNames[order[j]]))])]

\* The catalogs of at most max packages: names unique and sorted, as
\* LoadPackages builds them from the keys of a YAML mapping.
Catalogs(max) ==
    UNION { {CatalogOf(idxs, keys) : keys \in [idxs -> SUBSET MapTargets]} :
            idxs \in {s \in SUBSET (1..Len(SortedNames)) : Cardinality(s) <= max} }

\* Names of rpm packages, in the order the enumeration prints them.
RpmNames == <<"gcc", "gcc-c++", "make">>

\* The output of `rpm -qa --qf '%{NAME}\n'` when installed is installed.
RECURSIVE RpmOutput(_, _)
RpmOutput(i, installed) ==
    IF i > Len(RpmNames) THEN <<>>
    ELSE (IF RpmNames[i] \in installed THEN <<RpmNames[i], NL>> ELSE <<>>)
         \o RpmOutput(i + 1, installed)

\* The sequences over a set of length lo..hi.
SeqsOf(set, lo, hi) == UNION {[1..n -> set] : n \in lo..hi}

\* Specifiers of a dnf method: one to max names joined by a space, with or
\* without a space more at the end.
DnfSpecs(max) ==
    {Join([i \in 1..Len(names) |-> W(names[i])]) \o pad :
        names \in SeqsOf(Range(RpmNames), 1, max), pad \in {<<>>, <<SP>>}}

\* A snap method.
SnapMethod(name, classic) ==
    [EmptyMethod EXCEPT !.Snap = [Name |-> name, Classic |-> classic]]

\* One method of every kind MethodName tells apart, one manual method of
\* every type installManual knows and of one it does not, and the method
\* with no variant populated.
AllMethods ==
    { BrewMethod(W("bat")), CaskMethod(W("ghostty")), AptMethod(W("bat")),
      DnfMethod(GccMake), UvToolMethod(W("ruff")), CargoMethod(W("atuin")),
      GoToolMethod(<<"github.com", "/", "lazygit", "@", "latest">>),
      SnapMethod(W("code"), TRUE), [EmptyMethod EXCEPT !.Flatpak = W("org.gimp")],
      [EmptyMethod EXCEPT !.Yay = W("paru")],
      GhExtMethod(<<"dlvhdr", "/", "gh-dash">>),
      [EmptyMethod EXCEPT !.Eget = <<"zyedidia", "/", "eget">>], EmptyMethod }
    \cup
    { ManualMethod(ManualSpec(type)) :
        type \in {"script", "git_clone", "dmg", "deb", "rpm", "appimage", "zip"} }

\* The calls under check: FilterForTarget on a catalog, IsInstalled on a dnf
\* method over an installed set, Install on a package.
FilterInputs ==
    { [op |-> "filter", catalog |-> c, target |-> t] :
        c \in Catalogs(MaxCatalog), t \in AskedTargets }

DnfInputs ==
    { [op |-> "dnf", spec |-> sp, installed |-> inst] :
        sp \in DnfSpecs(MaxFields), inst \in SUBSET Range(RpmNames) }

\* Specifiers of an apt method and installed sets: dpkg-query prints one
\* name per line, as rpm does.
AptInputs ==
    { [op |-> "apt", spec |-> sp, installed |-> inst] :
        sp \in DnfSpecs(MaxFields), inst \in SUBSET Range(RpmNames) }

InstallInputsOf(m) ==
    { [op |-> "install", pkg |-> Package("tool", [key \in {"darwin"} |-> m]),
       target |-> t, isInstalled |-> i, authFails |-> a, fails |-> f] :
        t \in {"darwin", "fedora"}, i \in BOOLEAN, a \in BOOLEAN,
        f \in SUBSET StepNames(ActionSteps(m)) }

InstallInputs == UNION {InstallInputsOf(m) : m \in AllMethods}

\* ---- packages.json and LoadPackages ----

\* Keys of a catalog document, as strings of symbols, in byte order: the empty
\* key, a key that starts with an underscore, two package names.
DocKeys == << <<>>, <<"_", "note">>, <<"bat">>, <<"fd">> >>

\* A JSON value that is not an object (a string where an object is expected).
RawScalar == [json |-> "string"]

\* A member that the object does not have.
RawAbsent == [json |-> "absent"]

\* A JSON object: its members as a function.
RawObject(members) == [json |-> "object", members |-> members]

\* A method object that decodes to the InstallMethod m.
RawMethod(m) == [json |-> "object", method |-> m]

\* The values of "packages" in an entry: absent, not an object, or an object
\* from targets to methods of which the ubuntu one, when present, does not
\* decode.
RawPackagesValues ==
    { RawAbsent, RawScalar,
      RawObject([t \in {} |-> RawScalar]),
      RawObject([t \in {"darwin"} |-> RawMethod(BrewMethod(W("bat")))]),
      RawObject([t \in {"darwin"} |-> RawScalar]),
      RawObject([t \in {"darwin", "ubuntu"} |->
                    IF t = "darwin" THEN RawMethod(BrewMethod(W("bat")))
                    ELSE RawScalar]) }

\* The values of a top-level member: not an object, or an object with one of
\* the values of "packages".
RawEntries ==
    {RawScalar} \cup {[json |-> "object", packages |-> v] : v \in RawPackagesValues}

\* json.Unmarshal(rawPkg, &entry) fails, line 250.
EntryDecodeFails(raw) ==
    \/ raw.json # "object"
    \/ raw.packages.json \notin {"absent", "object"}

\* The loop of lines 263-269: the methods that decode, by target.
DecodeMethods(members) ==
    [t \in {u \in DOMAIN members : members[u].json = "object"} |-> members[t].method]

\* The loop of lines 241-272 over the keys in the order the map yields them.
\* name[0] of an empty key is out of range: the run-time panic ends the load.
RECURSIVE LoadLoop(_, _, _, _)
LoadLoop(entries, order, i, pkgs) ==
    IF i > Len(order) THEN [status |-> "ok", packages |-> pkgs]
    ELSE LET name == order[i]
             raw == entries[name]
         IN  IF name = <<>> THEN [status |-> "panic", packages |-> <<>>]
             ELSE IF Head(name) = "_" THEN LoadLoop(entries, order, i + 1, pkgs)
             ELSE IF EntryDecodeFails(raw) THEN LoadLoop(entries, order, i + 1, pkgs)
             ELSE IF raw.packages.json = "absent"
                  THEN LoadLoop(entries, order, i + 1, pkgs)
             ELSE LoadLoop(entries, order, i + 1,
                           Append(pkgs, Package(name,
                                                DecodeMethods(raw.packages.members))))

\* Position of a key in byte order.
KeyRank(name) == CHOOSE r \in 1..Len(DocKeys) : DocKeys[r] = name

\* sort.Slice by Name, lines 275-277: names are unique, so the order is the
\* one of the ranks.
RECURSIVE SortByName(_)
SortByName(pkgs) ==
    IF pkgs = <<>> THEN <<>>
    ELSE LET least == CHOOSE i \in 1..Len(pkgs) :
                         \A j \in 1..Len(pkgs) :
                             KeyRank(pkgs[i].Name) <= KeyRank(pkgs[j].Name)
         IN  <<pkgs[least]>> \o
             SortByName([j \in 1..(Len(pkgs) - 1) |->
                            IF j < least THEN pkgs[j] ELSE pkgs[j + 1]])

\* LoadPackages on a document that is a JSON object.  taps is what
\* "_brew_taps" holds: "absent", "list", or "bad" for a value that is not a
\* list of strings.  order is the order in which range yields the keys.
LoadPackages(taps, entries, order) ==
    IF taps = "bad" THEN [status |-> "error", packages |-> <<>>]
    ELSE LET loaded == LoadLoop(entries, order, 1, <<>>)
         IN  IF loaded.status = "panic" THEN loaded
             ELSE [status |-> "ok", packages |-> SortByName(loaded.packages)]

\* The orders in which a set of keys can be ranged over.
Orders(keys) ==
    {o \in [1..Cardinality(keys) -> keys] :
        \A i, j \in 1..Cardinality(keys) : o[i] = o[j] => i = j}

\* The documents of at most max members, with the orders of their keys.
LoadInputs(max) ==
    UNION { { [op |-> "load", taps |-> tp, entries |-> e, order |-> o] :
                tp \in {"absent", "list", "bad"}, e \in [keys -> RawEntries],
                o \in Orders(keys) } :
            keys \in {ks \in SUBSET Range(DocKeys) : Cardinality(ks) <= max} }

\* LoadPackages(sourceDir)
CallLoadPackages ==
    /\ pureIn.op = "load"
    /\ pureOut = NoPure
    /\ pureOut' = [op |-> "load",
                   result |-> LoadPackages(pureIn.taps, pureIn.entries, pureIn.order)]
    /\ UNCHANGED <<orchVars, pureIn, timedVars>>

\* ---- installDmg ----

\* A command installDmg runs, with the path it is about.
Command(cmd, arg) == [cmd |-> cmd, arg |-> arg]

\* The mount point the volume of the disk image is attached at.
Volume == <<"/Volumes/", "Zebar">>

\* What `hdiutil attach` can print when it exits zero: nothing, the line of
\* the volume alone or after the line of the device, that line with trailing
\* white space.
MountOutputs ==
    { <<>>,
      <<"/dev/disk4s1", SP, "Apple_HFS", SP>> \o Volume \o <<NL>>,
      <<"/dev/disk4", SP, "GUID_partition_scheme", NL,
        "/dev/disk4s1", SP, "Apple_HFS", SP>> \o Volume \o <<NL>>,
      <<"/dev/disk4s1", SP>> \o Volume \o <<SP, NL, NL>> }

\* Lines 448-454: the last field of the last line that contains "/Volumes/",
\* or the empty string.
RECURSIVE MountPointLoop(_, _, _)
MountPointLoop(lines, i, mountPoint) ==
    IF i > Len(lines) THEN mountPoint
    ELSE MountPointLoop(lines, i + 1,
                        IF Contains(lines[i], <<"/Volumes/">>)
                        THEN Fields(lines[i])[Len(Fields(lines[i]))]
                        ELSE mountPoint)

MountPointOf(mountOut) == MountPointLoop(SplitLines(TrimSpace(mountOut)), 1, <<>>)

\* A deferred call that runs only when the function returns nil.
DeferredOnSuccess(err, call) == IF err = NoError THEN <<call>> ELSE <<>>

\* A deferred call: it runs when the function returns, whatever it returns.
Deferred(err, call) == <<call>>

\* What a return of installDmg after the defer of line 458 amounts to: the
\* commands so far, then the deferred detach.
ReturnDetaching(err, cmds, mountPoint) ==
    [err |-> err,
     cmds |-> cmds \o Deferred(err, Command("hdiutil detach", mountPoint))]

\* installDmg.  fails holds the commands that exit non-zero ("asset" stands
\* for a release query that prints no URL), mountOut is what the attach
\* prints, hasApp whether the volume holds an .app entry.  The result is the
\* error returned and the commands run, in order.
InstallDmg(fails, mountOut, hasApp) ==
    LET view == <<Command("gh release view", <<>>)>>
        curl == view \o <<Command("curl", <<>>)>>
        attach == curl \o <<Command("hdiutil attach", <<>>)>>
        mountPoint == MountPointOf(mountOut)
        \* os.ReadDir finds the entries only at the path the volume is at
        found == hasApp /\ mountPoint = Volume
        copy == attach \o <<Command("cp", mountPoint)>>
    IN  IF "resolve" \in fails
        THEN [err |-> <<"gh release view: ", ExitErr>>, cmds |-> view]
        ELSE IF "asset" \in fails
        THEN [err |-> <<"no asset matching">>, cmds |-> view]
        ELSE IF "download" \in fails
        THEN [err |-> <<"download dmg: ", ExitErr>>, cmds |-> curl]
        ELSE IF "mount" \in fails
        THEN [err |-> <<"mount dmg: ", ExitErr>>, cmds |-> attach]
        ELSE IF mountPoint = <<>>
        THEN [err |-> <<"could not determine dmg mount point">>, cmds |-> attach]
        ELSE IF ~found
        THEN ReturnDetaching(<<"no .app found in dmg">>, attach, mountPoint)
        ELSE IF "copy" \in fails
        THEN ReturnDetaching(<<"copy app: ", ExitErr>>, copy, mountPoint)
        ELSE ReturnDetaching(NoError, copy, mountPoint)

DmgInputs ==
    { [op |-> "dmg", fails |-> f, mountOut |-> o, hasApp |-> a] :
        f \in SUBSET {"resolve", "asset", "download", "mount", "copy", "detach"},
        o \in MountOutputs, a \in BOOLEAN }

\* pi.installDmg(manual)
CallInstallDmg ==
    /\ pureIn.op = "dmg"
    /\ pureOut = NoPure
    /\ pureOut' = [op |-> "dmg",
                   result |-> InstallDmg(pureIn.fails, pureIn.mountOut, pureIn.hasApp)]
    /\ UNCHANGED <<orchVars, pureIn, timedVars>>

\* ---- the switches on MethodName ----

\* The kinds in the order of the cases of MethodName, each with the field of
\* InstallMethod its case tests.
KindFields ==
    << <<"brew", "Brew">>, <<"cask", "Cask">>, <<"apt", "Apt">>,
       <<"dnf", "Dnf">>, <<"uv_tool", "UvTool">>, <<"cargo", "Cargo">>,
       <<"go_tool", "GoTool">>, <<"snap", "Snap">>, <<"flatpak", "Flatpak">>,
       <<"yay", "Yay">>, <<"gh_extension", "GhExtension">>, <<"eget", "Eget">>,
       <<"manual", "Manual">> >>

\* The case of IsInstalled's switch a method takes, with the value the case
\* looks up or probes: a field of the method, or the package name in the
\* fallback after the switch.
IsInstalledCase(name, method) ==
    LET m == MethodName(method)
    IN  CASE m = "brew"    -> [kind |-> "brew", arg |-> method.Brew]
          [] m = "cask"    -> [kind |-> "cask", arg |-> method.Cask]
          [] m = "apt"     -> [kind |-> "apt", arg |-> method.Apt]
          [] m = "dnf"     -> [kind |-> "dnf", arg |-> method.Dnf]
          [] m = "uv_tool" -> [kind |-> "uv_tool", arg |-> method.UvTool]
          [] m = "cargo"   -> [kind |-> "cargo", arg |-> method.Cargo]
          [] m = "go_tool" -> [kind |-> "go_tool", arg |-> method.GoTool]
          [] m = "snap"    -> [kind |-> "snap", arg |-> method.Snap.Name]
          [] m = "flatpak" -> [kind |-> "flatpak", arg |-> method.Flatpak]
          [] m = "yay"     -> [kind |-> "yay", arg |-> method.Yay]
          [] m = "gh_extension" ->
                [kind |-> "gh_extension", arg |-> method.GhExtension]
          [] m = "eget"    -> [kind |-> "eget", arg |-> method.Eget]
          [] m = "manual"  -> [kind |-> "manual", arg |-> method.Manual]
          [] OTHER         -> [kind |-> "unknown", arg |-> name]

\* The case of Install's switch a method takes, with the value its command
\* is built from; the default case builds no command.
InstallCase(name, method) ==
    LET m == MethodName(method)
    IN  CASE m = "brew"    -> [kind |-> "brew", arg |-> method.Brew]
          [] m = "cask"    -> [kind |-> "cask", arg |-> method.Cask]
          [] m = "apt"     -> [kind |-> "apt", arg |-> method.Apt]
          [] m = "dnf"     -> [kind |-> "dnf", arg |-> method.Dnf]
          [] m = "uv_tool" -> [kind |-> "uv_tool", arg |-> method.UvTool]
          [] m = "cargo"   -> [kind |-> "cargo", arg |-> method.Cargo]
          [] m = "go_tool" -> [kind |-> "go_tool", arg |-> method.GoTool]
          [] m = "snap"    -> [kind |-> "snap", arg |-> method.Snap.Name]
          [] m = "flatpak" -> [kind |-> "flatpak", arg |-> method.Flatpak]
          [] m = "yay"     -> [kind |-> "yay", arg |-> method.Yay]
          [] m = "gh_extension" ->
                [kind |-> "gh_extension", arg |-> method.GhExtension]
          [] m = "eget"    -> [kind |-> "eget", arg |-> method.Eget]
          [] m = "manual"  -> [kind |-> "manual", arg |-> method.Manual]
          [] OTHER         -> [kind |-> "unknown", arg |-> Nil]

\* The method whose populated variants are those of the given kinds.
MethodWith(kinds) ==
    [f \in DOMAIN EmptyMethod |->
        LET i == CHOOSE i \in 1..Len(KindFields) : KindFields[i][2] = f
        IN  IF KindFields[i][1] \notin kinds THEN EmptyMethod[f]
            ELSE IF f = "Snap" THEN [Name |-> W("code"), Classic |-> FALSE]
            ELSE IF f = "Manual" THEN ManualSpec("script")
            ELSE W(KindFields[i][1])]

\* Methods with up to max variants populated.
KindInputs(max) ==
    { [op |-> "kind", name |-> W("tool"), method |-> MethodWith(kinds)] :
        kinds \in { ks \in SUBSET {KindFields[i][1] : i \in 1..Len(KindFields)} :
                        Cardinality(ks) <= max } }

\* method.MethodName(), and the cases IsInstalled and Install take for it.
CallMethodName ==
    /\ pureIn.op = "kind"
    /\ pureOut = NoPure
    /\ pureOut' = [op |-> "kind",
                   kind |-> MethodName(pureIn.method),
                   detect |-> IsInstalledCase(pureIn.name, pureIn.method),
                   install |-> InstallCase(pureIn.name, pureIn.method)]
    /\ UNCHANGED <<orchVars, pureIn, timedVars>>

\* ---- resolveGhAssetURL ----

\* strings' endswith of the jq filter.
EndsWith(s, suffix) ==
    Len(s) >= Len(suffix) /\ SubSeq(s, Len(s) - Len(suffix) + 1, Len(s)) = suffix

\* The assets a release is drawn from: two disk images and a Debian package.
Assets ==
    { [name |-> <<"app-arm64", ".dmg">>, url |-> <<"https://host/1">>],
      [name |-> <<"app-x64", ".dmg">>, url |-> <<"https://host/2">>],
      [name |-> <<"app", ".deb">>, url |-> <<"https://host/3">>] }

\* What `gh release view ... -q '.assets[] | select(.name | endswith(p)) |
\* .url'` prints: the url of every asset whose name ends with the pattern,
\* one per line, in the order of the release.
RECURSIVE JqOutput(_, _)
JqOutput(assets, pattern) ==
    IF assets = <<>> THEN <<>>
    ELSE (IF EndsWith(Head(assets).name, pattern)
          THEN Head(assets).url \o <<NL>> ELSE <<>>)
         \o JqOutput(Tail(assets), pattern)

\* resolveGhAssetURL for a release with the given assets; fails is whether
\* the gh command exits non-zero.
resolveGhAssetURL(fails, assets, pattern) ==
    IF fails THEN [url |-> <<>>, err |-> <<"gh release view: ">> \o W(ExitErr)]
    ELSE LET url == TrimSpace(JqOutput(assets, pattern))
         IN  IF url = <<>>
             THEN [url |-> <<>>, err |-> <<"no asset matching">>]
             ELSE [url |-> url, err |-> NoError]

\* Releases of up to max assets, asked for their disk image.
ResolveInputs(max) ==
    { [op |-> "resolve", ghFails |-> f, assets |-> a, pattern |-> <<".dmg">>] :
        f \in BOOLEAN,
        a \in { s \in SeqsOf(Assets, 0, max) :
                  \A i, j \in 1..Len(s) : i # j => s[i] # s[j] } }

CallResolveGhAssetURL ==
    /\ pureIn.op = "resolve"
    /\ pureOut = NoPure
    /\ pureOut' = [op |-> "resolve",
                   ret |-> resolveGhAssetURL(pureIn.ghFails, pureIn.assets,
                                             pureIn.pattern)]
    /\ UNCHANGED <<orchVars, pureIn, timedVars>>

\* ---- isManualInstalled ----

\* The home directory of the machine.
Home == <<"/home/u">>

\* strings.TrimSpace of the output of `echo <path>`: the shell replaces a
\* leading tilde with the home directory and echo ends the line.
Expand(path) ==
    TrimSpace((IF path # <<>> /\ Head(path) = "~" THEN Home \o Tail(path) ELSE path)
              \o <<NL>>)

\* Lines 314-324: an entry of the application directories that ends with
\* ".app" and whose lower-cased name contains the lower-cased package name.
BundleMatches(name, apps) ==
    \E e \in apps :
        /\ e # <<>> /\ e[Len(e)] = ".app"
        /\ Contains([i \in 1..Len(e) |-> LowerSym(e[i])],
                    [i \in 1..Len(name) |-> LowerSym(name[i])])

\* A detection that asks the first configured test and nothing else.
isManualInstalledFirstOnly(name, manual, env) ==
    IF manual.CheckCommand # <<>> THEN manual.CheckCommand \in env.commands
    ELSE IF manual.CheckDir # <<>> THEN Expand(manual.CheckDir) \in env.dirs
    ELSE IF manual.Dest # <<>> THEN Expand(manual.Dest) \in env.dirs \cup env.files
    ELSE IF manual.Type = "dmg" THEN BundleMatches(name, env.apps)
    ELSE name \in env.commands

\* PackageInstaller.isManualInstalled on a machine env: the commands on the
\* PATH, the directories and the other paths of the file system, the entries of
\* the application directories.  Every `if` returns only when its test is
\* positive, except the first, which returns either way.
isManualInstalled(name, manual, env) ==
    IF manual.CheckCommand # <<>> THEN manual.CheckCommand \in env.commands
    ELSE IF manual.CheckDir # <<>> /\ Expand(manual.CheckDir) \in env.dirs THEN TRUE
    ELSE IF manual.Dest # <<>> /\ Expand(manual.Dest) \in env.dirs \cup env.files
    THEN TRUE
    ELSE IF manual.Type = "dmg" /\ BundleMatches(name, env.apps) THEN TRUE
    ELSE name \in env.commands

\* Manual methods of the package ghostty with every choice of configured
\* tests, on machines with every choice of what exists.
ManualInputs ==
    { [op |-> "manual", name |-> W("ghostty"),
       manual |-> [ManualSpec(type) EXCEPT !.CheckCommand = cc, !.CheckDir = cd,
                                           !.Dest = dest],
       env |-> [commands |-> cmds, dirs |-> dirs, files |-> files, apps |-> apps]] :
        type \in {"script", "dmg"},
        cc \in {<<>>, W("gtty")},
        cd \in {<<>>, <<"~", "/", ".ghostty">>},
        dest \in {<<>>, <<"~", "/", "bin", "/", "ghostty">>},
        cmds \in SUBSET {W("gtty"), W("ghostty")},
        dirs \in SUBSET {Home \o <<"/", ".ghostty">>},
        files \in SUBSET {Home \o <<"/", "bin", "/", "ghostty">>},
        apps \in {{}, {<<"Ghostty", ".app">>}, {<<"ghostty">>, <<"Other", ".app">>}} }

CallIsManualInstalled ==
    /\ pureIn.op = "manual"
    /\ pureOut = NoPure
    /\ pureOut' = [op |-> "manual",
                   installed |-> isManualInstalled(pureIn.name, pureIn.manual,
                                                   pureIn.env)]
    /\ UNCHANGED <<orchVars, pureIn, timedVars>>

\* ---- showSummary ----

\* The counters and the list of showSummary before its loop.
NoSummary ==
    [installed |-> 0, alreadyOK |-> 0, skipped |-> 0, failed |-> 0,
     failedPkgs |-> <<>>]

\* An iteration that puts the failed name at the front of the list.
TallyPrepend(acc, r) ==
    CASE r.Status = "done" -> [acc EXCEPT !.installed = @ + 1]
      [] r.Status = "ok"   -> [acc EXCEPT !.alreadyOK = @ + 1]
      [] r.Status = "skip" -> [acc EXCEPT !.skipped = @ + 1]
      [] r.Status = "fail" -> [acc EXCEPT !.failed = @ + 1,
                                          !.failedPkgs = <<r.Name>> \o @]
      [] OTHER -> acc

\* Lines 800-810: one iteration of the loop over a.results, the switch on
\* r.Status.
Tally(acc, r) ==
    CASE r.Status = "done" -> [acc EXCEPT !.installed = @ + 1]
      [] r.Status = "ok"   -> [acc EXCEPT !.alreadyOK = @ + 1]
      [] r.Status = "skip" -> [acc EXCEPT !.skipped = @ + 1]
      [] r.Status = "fail" -> [acc EXCEPT !.failed = @ + 1,
                                          !.failedPkgs = Append(@, r.Name)]
      [] OTHER -> acc

\* App.showSummary, lines 795-811: the counts and the failed names.
RECURSIVE SummaryLoop(_, _, _)
SummaryLoop(rs, i, acc) ==
    IF i > Len(rs) THEN acc ELSE SummaryLoop(rs, i + 1, Tally(acc, rs[i]))

showSummary(rs) == SummaryLoop(rs, 1, NoSummary)

\* Recorded results of up to max entries: two package names, the four
\* statuses the step records.
SummaryInputs(max) ==
    { [op |-> "summary", results |-> rs] :
        rs \in SeqsOf({InstallResult(n, "cargo", st, NoError) :
                          n \in {"atuin", "bottom"},
                          st \in {"ok", "done", "skip", "fail"}}, 0, max) }

CallShowSummary ==
    /\ pureIn.op = "summary"
    /\ pureOut = NoPure
    /\ pureOut' = [op |-> "summary", summary |-> showSummary(pureIn.results)]
    /\ UNCHANGED <<orchVars, pureIn, timedVars>>

\* ---- detectOS ----

\* strings.Trim(s, "\""): the quotes at both ends removed.
RECURSIVE TrimQuotes(_)
TrimQuotes(s) ==
    IF s # <<>> /\ Head(s) = "\"" THEN TrimQuotes(Tail(s))
    ELSE IF s # <<>> /\ s[Len(s)] = "\"" THEN TrimQuotes(SubSeq(s, 1, Len(s) - 1))
    ELSE s

\* Lines 52-63: the loop over the lines of /etc/os-release.  A line that
\* starts with "ID=" sets the target to its unquoted value, and "pop"
\* becomes "pop_os".
RECURSIVE IdLoop(_, _)
IdLoop(lines, tgt) ==
    IF lines = <<>> THEN tgt
    ELSE IF Head(lines) # <<>> /\ Head(Head(lines)) = "ID="
    THEN LET id == TrimQuotes(Tail(Head(lines)))
         IN  IdLoop(Tail(lines), IF id = W("pop") THEN W("pop_os") ELSE id)
    ELSE IdLoop(Tail(lines), tgt)

\* detectOS().Target: goos is runtime.GOOS, readErr whether reading
\* /etc/os-release fails, release its content.
detectOS(goos, readErr, release) ==
    IF goos = "darwin" THEN W("darwin")
    ELSE IF readErr THEN W("linux")
    ELSE IdLoop(SplitLines(release), W("linux"))

\* Lines of an os-release file: a name, the ID of a distribution with or
\* without quotes, the distributions it is like.
ReleaseLines ==
    { <<"NAME=", "\"", "Some", SP, "Linux", "\"">>, <<"ID_LIKE=", "ubuntu">> }
    \cup { <<"ID=", id>> : id \in {"ubuntu", "fedora", "pop", "debian"} }
    \cup { <<"ID=", "\"", id, "\"">> : id \in {"fedora", "arch"} }

\* The file with the given lines, each ended by a newline.
RECURSIVE FileOf(_)
FileOf(lines) ==
    IF lines = <<>> THEN <<>> ELSE Head(lines) \o <<NL>> \o FileOf(Tail(lines))

\* Machines: macOS, and Linux without an os-release file or with one of up
\* to max lines, at most one of them an ID line.
DetectInputs(max) ==
    { [op |-> "detect", goos |-> "darwin", readErr |-> TRUE, release |-> <<>>],
      [op |-> "detect", goos |-> "linux", readErr |-> TRUE, release |-> <<>>] }
    \cup
    { [op |-> "detect", goos |-> "linux", readErr |-> FALSE, release |-> FileOf(ls)] :
        ls \in { s \in SeqsOf(ReleaseLines, 0, max) :
                   Cardinality({i \in 1..Len(s) : Head(s[i]) = "ID="}) <= 1 } }

CallDetectOS ==
    /\ pureIn.op = "detect"
    /\ pureOut = NoPure
    /\ pureOut' = [op |-> "detect", target |-> detectOS(pureIn.goos, pureIn.readErr,
                                       pureIn.release)]
    /\ UNCHANGED <<orchVars, pureIn, timedVars>>

\* Outputs of an enumeration command: names, spaces and newlines.
ParseInputs(max) ==
    { [op |-> "parse", text |-> t] : t \in SeqsOf({"foo", "bar", SP, NL}, 0, max) }

\* parseLines(output) and parseFirstWord(output)
CallParse ==
    /\ pureIn.op = "parse"
    /\ pureOut = NoPure
    /\ pureOut' = [op |-> "parse", lines |-> parseLines(pureIn.text),
                   words |-> parseFirstWord(pureIn.text)]
    /\ UNCHANGED <<orchVars, pureIn, timedVars>>

\* ---- IsInstalled of the kinds that probe the PATH ----

\* A go_tool case that keeps the version.
BeforeAtKeep(s) == s

\* binName[:strings.Index(binName, "@")], or binName when it has no "@".
RECURSIVE BeforeAt(_)
BeforeAt(s) ==
    IF s = <<>> \/ Head(s) = "@" THEN <<>>
    ELSE <<Head(s)>> \o BeforeAt(Tail(s))

\* Lines 239-247 and 281-286: the name the go_tool and the eget case hand to
\* commandExists.
ProbeName(method) ==
    IF MethodName(method) = "go_tool"
    THEN BeforeAt(AfterLastSlash(method.GoTool))
    ELSE AfterLastSlash(method.Eget)

\* IsInstalled on an installer whose cache is c, on a machine with the given
\* commands on the PATH and the given outputs of the enumeration commands:
\* the answer, the cache afterwards and the keys whose loader ran.  The
\* go_tool and eget cases do not call cache.get.
IsInstalledOn(method, c, commands, outputs) ==
    LET m == MethodName(method)
        key == CacheKey(m)
    IN  IF m \in {"go_tool", "eget"}
        THEN [answer |-> ProbeName(method) \in commands, cache |-> c, ran |-> {}]
        ELSE IF key \in DOMAIN c
        THEN [answer |-> IsInstalledIn(method, c[key]), cache |-> c, ran |-> {}]
        ELSE LET installed == Loader(m, outputs[m], {})
             IN  [answer |-> IsInstalledIn(method, installed),
                  cache |-> [k \in DOMAIN c \cup {key} |->
                                IF k = key THEN installed ELSE c[k]],
                  ran |-> {key}]

\* The caches a probe starts from: empty, or with the cargo set memoized.
ProbeCaches == { [k \in {} |-> {}], [k \in {"cargo"} |-> {W("tool")}] }

\* The commands a machine of a probe can have on its PATH.
ProbeCommands == {W("tool"), <<"tool", "@", "a">>}

\* go_tool and eget methods with every identifier of at most max symbols,
\* and a cargo method, on every cache and machine.
ProbeInputs(max) ==
    { [op |-> "probe", method |-> m, cache |-> c, commands |-> cmds] :
        m \in {GoToolMethod(id) : id \in SeqsOf({"a", "tool", "/", "@"}, 1, max)}
              \cup {EgetMethod(id) : id \in SeqsOf({"a", "tool", "/", "@"}, 1, max)}
              \cup {CargoMethod(W("tool"))},
        c \in ProbeCaches, cmds \in SUBSET ProbeCommands }

\* pi.IsInstalled(name, method) on a machine whose `cargo install --list`
\* prints nothing.
CallIsInstalledProbe ==
    /\ pureIn.op = "probe"
    /\ pureOut = NoPure
    /\ pureOut' = [op |-> "probe",
                   probe |-> IsInstalledOn(pureIn.method, pureIn.cache, pureIn.commands,
                                           [k \in CacheKinds |-> <<>>])]
    /\ UNCHANGED <<orchVars, pureIn, timedVars>>

\* ---- categorizePackages ----

\* categoryMap, lines 126-178: the categories, each with the names the map
\* sends to it.
categoryMap ==
    << <<"System Tools",
         {"git", "curl", "zsh", "make", "build-essential", "ripgrep", "jq",
          "bat"}>>,
       <<"Editors",
         {"neovim", "helix", "fresh-editor", "visual-studio-code", "zed"}>>,
       <<"Terminal Tools",
         {"fzf", "eza", "bottom", "zoxide", "zellij", "lazygit",
          "lazydocker", "glow", "television", "difftastic", "ghostty"}>>,
       <<"Development",
         {"node", "npm", "nvm", "go", "uv", "python3-pip", "pre-commit",
          "biome", "ipython", "jupyter", "just", "act", "rumdl", "djlint",
          "harlequin", "euporie"}>>,
       <<"GUI Applications",
         {"zen-browser", "claude", "claude-code", "raycast", "obsidian",
          "thunderbird", "gimp", "flameshot", "protonvpn", "localsend",
          "httpie-desktop", "ente-auth", "proton-pass", "alt-tab",
          "logi-options-plus"}>>,
       <<"Shell & Prompt",
         {"oh-my-zsh", "zsh-autosuggestions", "zsh-syntax-highlighting",
          "pure-prompt"}>>,
       <<"Utilities",
         {"rclone", "rclone-ui", "topgrade", "httpie", "vhs", "gum",
          "hyperfine", "fx", "zola", "vhs-eget", "tv", "crush", "eget",
          "intelli-shell", "dockutil"}>>,
       <<"GitHub",
         {"gh", "gh-dash", "gama"}>>,
       <<"Containers",
         {"podman"}>>,
       <<"Proton",
         {"proton-pass-cli"}>> >>

\* A categoryOrder that lacks the last category.
categoryOrderShort ==
    <<"System Tools", "Editors", "Terminal Tools", "Development",
      "GUI Applications", "Shell & Prompt", "GitHub", "Containers", "Proton">>

\* categoryOrder, lines 180-184.
categoryOrder ==
    <<"System Tools", "Editors", "Terminal Tools", "Development",
      "GUI Applications", "Shell & Prompt", "GitHub", "Containers", "Proton",
      "Utilities">>

\* Lines 189-193: categoryMap[name], or "Other" for a name the map lacks.
CategoryOf(name) ==
    IF \E i \in 1..Len(categoryMap) : name \in categoryMap[i][2]
    THEN categoryMap[CHOOSE i \in 1..Len(categoryMap) : name \in categoryMap[i][2]][1]
    ELSE "Other"

\* Lines 188-194: the loop that builds groups, a map from category to the
\* packages appended to it, in the order of pkgs.  append allocates the
\* slices of groups, so they share nothing with pkgs.
RECURSIVE GroupLoop(_, _, _)
GroupLoop(pkgs, i, groups) ==
    IF i > Len(pkgs) THEN groups
    ELSE LET cat == CategoryOf(pkgs[i].Name)
         IN  GroupLoop(pkgs, i + 1,
                       [c \in DOMAIN groups \cup {cat} |->
                           IF c = cat
                           THEN (IF c \in DOMAIN groups THEN groups[c] ELSE <<>>)
                                \o <<pkgs[i]>>
                           ELSE groups[c]])

\* The names packages are drawn with, in byte order.
PkgNames == <<"bat", "eget", "gh", "git", "mytool", "neovim", "xtool">>

\* pkgs[i].Name < pkgs[j].Name
NameLess(a, b) ==
    (CHOOSE r \in 1..Len(PkgNames) : PkgNames[r] = a)
        < (CHOOSE r \in 1..Len(PkgNames) : PkgNames[r] = b)

\* sort.Slice by Name on a slice whose names differ.
RECURSIVE SortGroup(_)
SortGroup(pkgs) ==
    IF pkgs = <<>> THEN <<>>
    ELSE LET least == CHOOSE i \in 1..Len(pkgs) :
                         \A j \in 1..Len(pkgs) : ~NameLess(pkgs[j].Name, pkgs[i].Name)
         IN  <<pkgs[least]>> \o
             SortGroup([j \in 1..(Len(pkgs) - 1) |->
                           IF j < least THEN pkgs[j] ELSE pkgs[j + 1]])

\* PackageCategory{Name, Packages}
PackageCategory(name, pkgs) == [Name |-> name, Packages |-> pkgs]

\* Lines 196-204: the loop over categoryOrder.
RECURSIVE OrderLoop(_, _, _)
OrderLoop(groups, i, categories) ==
    IF i > Len(categoryOrder) THEN categories
    ELSE OrderLoop(groups, i + 1,
                   IF categoryOrder[i] \in DOMAIN groups
                   THEN Append(categories,
                               PackageCategory(categoryOrder[i],
                                               SortGroup(groups[categoryOrder[i]])))
                   ELSE categories)

\* categorizePackages: the categories returned and the input slice afterwards.
categorizePackages(pkgs) ==
    LET groups == GroupLoop(pkgs, 1, [c \in {} |-> <<>>])
        named == OrderLoop(groups, 1, <<>>)
    IN  [categories |-> IF "Other" \in DOMAIN groups
                        THEN Append(named, PackageCategory("Other",
                                                           SortGroup(groups["Other"])))
                        ELSE named,
         pkgs |-> pkgs]

\* Slices of at most max packages with different names, in every order.
CategorizeInputs(max) ==
    { [op |-> "categorize",
       pkgs |-> [i \in 1..Len(ns) |-> Package(ns[i], [t \in {"darwin"} |-> BrewMethod(W(ns[i]))])]] :
        ns \in {s \in SeqsOf(Range(PkgNames), 0, max) :
                   \A i \in 1..Len(s) : \A j \in 1..Len(s) : s[i] = s[j] => i = j} }

\* categorizePackages(pkgs)
CallCategorizePackages ==
    /\ pureIn.op = "categorize"
    /\ pureOut = NoPure
    /\ pureOut' = [op |-> "categorize", out |-> categorizePackages(pureIn.pkgs)]
    /\ UNCHANGED <<orchVars, pureIn, timedVars>>

InitPure ==
    /\ InitOrch(0, "darwin", {}, "start")
    /\ pureIn \in FilterInputs \cup DnfInputs \cup InstallInputs \cup LoadInputs(MaxEntries)
                      \cup DmgInputs \cup KindInputs(MaxVariants)
                      \cup ResolveInputs(MaxAssets) \cup ManualInputs
                      \cup SummaryInputs(MaxResults) \cup DetectInputs(MaxLines)
                      \cup AptInputs \cup CategorizeInputs(MaxPkgs)
    /\ pureOut = NoPure
    /\ NoTimed

\* c.FilterForTarget(target)
CallFilterForTarget ==
    /\ pureIn.op = "filter"
    /\ pureOut = NoPure
    /\ pureOut' = [op |-> "filter",
                   result |-> FilterForTarget(pureIn.catalog, pureIn.target)]
    /\ UNCHANGED <<orchVars, pureIn, timedVars>>

\* pi.IsInstalled(name, method) for a dnf method, on a PackageInstaller whose
\* cache is empty: the loader parses what rpm prints.
CallIsInstalled ==
    /\ pureIn.op = "dnf"
    /\ pureOut = NoPure
    /\ pureOut' = [op |-> "dnf",
                   result |-> IsInstalledIn(DnfMethod(pureIn.spec),
                                  Loader("dnf", RpmOutput(1, pureIn.installed), {}))]
    /\ UNCHANGED <<orchVars, pureIn, timedVars>>

\* pi.IsInstalled(name, method) for an apt method, on a PackageInstaller
\* whose cache is empty: the loader parses what dpkg-query prints.
CallIsInstalledApt ==
    /\ pureIn.op = "apt"
    /\ pureOut = NoPure
    /\ pureOut' = [op |-> "apt",
                   result |-> IsInstalledIn(AptMethod(pureIn.spec),
                                  Loader("apt", RpmOutput(1, pureIn.installed), {}))]
    /\ UNCHANGED <<orchVars, pureIn, timedVars>>

\* pi.Install(pkg)
CallInstall ==
    /\ pureIn.op = "install"
    /\ pureOut = NoPure
    /\ pureOut' = [op |-> "install",
                   result |-> Install(pureIn.pkg, pureIn.target, pureIn.isInstalled,
                                      pureIn.authFails, pureIn.fails),
                   calls |-> InstallCalls(pureIn.pkg, pureIn.target,
                                          pureIn.isInstalled, pureIn.authFails)]
    /\ UNCHANGED <<orchVars, pureIn, timedVars>>

NextPure ==
    \/ CallFilterForTarget
    \/ CallIsInstalled
    \/ CallIsInstalledApt
    \/ CallInstall
    \/ CallLoadPackages
    \/ CallInstallDmg
    \/ CallMethodName
    \/ CallResolveGhAssetURL
    \/ CallIsManualInstalled
    \/ CallShowSummary
    \/ CallDetectOS
    \/ CallCategorizePackages

SpecPure == InitPure /\ [][NextPure]_vars

\* ------------------------------------------------------------------------
\* Specification of the functions of the detection on their own
\* ------------------------------------------------------------------------

InitDetection ==
    /\ InitOrch(0, "darwin", {}, "start")
    /\ pureIn \in ParseInputs(MaxOutput) \cup ProbeInputs(MaxIdent)
    /\ pureOut = NoPure
    /\ NoTimed

NextDetection ==
    \/ CallParse
    \/ CallIsInstalledProbe

SpecDetection == InitDetection /\ [][NextDetection]_vars

\* ------------------------------------------------------------------------
\* aicommit and aipr: model.Update
\* ------------------------------------------------------------------------

\* The two programs.
Tools == {"aicommit", "aipr"}

\* The phases of both programs (aicommit 54-61, aipr 52-59).
Phases == {"generating", "ready", "confirm", "acting", "result", "error"}

\* The keys msg.String() tells apart, and one key ("x") that no case names.
Keys == {"q", "ctrl+c", "r", "e", "c", "P", "y", "Y", "enter", "n", "N", "esc", "x"}

\* A message: its type and, where the type has one, the key pressed or
\* whether the error (of generateDoneMsg and actionDoneMsg) is set or the
\* content (of editDoneMsg) is not empty.
Msg(type, key, set) == [type |-> type, key |-> key, set |-> set]

\* The messages Update can be called with.  tea.WindowSizeMsg is a case of
\* aipr only; in aicommit it is a message of no case.
Msgs ==
    {Msg(t, "", FALSE) : t \in {"spinner.TickMsg", "tickMsg", "tea.WindowSizeMsg"}}
    \cup {Msg(t, "", s) : t \in {"generateDoneMsg", "editDoneMsg", "actionDoneMsg"},
                         s \in BOOLEAN}
    \cup {Msg("tea.KeyMsg", k, FALSE) : k \in Keys}

\* newModel: phaseGenerating, the zero action (actionCommit; aipr has the one
\* action of creating the pull request), no text, no window size yet, the
\* shader session running.
newModel(tool) ==
    [tool |-> tool, phase |-> "generating",
     action |-> IF tool = "aicommit" THEN "commit" ELSE "create",
     body |-> "none", width |-> FALSE, ready |-> FALSE, stops |-> 0]

\* The commands that run git commit, git push or gh pr create.
SideEffects == {"runCommit", "runPush", "runCreatePR"}

\* What Update returns: the model and the commands of the tea.Cmd.
Ret(m, cmds) == [model |-> m, cmds |-> cmds]

\* The calls of m.shader.Stop() are counted up to this many.
MaxStops == 2

\* m.shader.Stop() is called once more.
Stopped(m) == [m EXCEPT !.stops = IF @ < MaxStops THEN @ + 1 ELSE @]

\* aipr: the viewport is made again when the window size is known.
WithViewport(m) == IF m.width THEN [m EXCEPT !.ready = TRUE] ELSE m

\* The command that generates the text.
Generate(m) ==
    {"spinner.Tick", "tick", IF m.tool = "aicommit" THEN "generateCommit" ELSE "generatePR"}

\* A "P" in phaseResult that pushes at once.
ResultPushNow(m) ==
    Ret([m EXCEPT !.action = "push", !.phase = "acting"], {"spinner.Tick", "tick", "runPush"})

\* aicommit 219-222: "P" in phaseResult asks for the confirmation of a push.
ResultPush(m) == Ret([m EXCEPT !.action = "push", !.phase = "confirm"], {})

\* aicommit 181-231: the tea.KeyMsg case.  A key of no case leaves the switch
\* and Update returns m, nil.
KeyCommit(m, key) ==
    CASE m.phase = "ready" ->
           (CASE key \in {"q", "ctrl+c"} -> Ret(Stopped(m), {"tea.Quit"})
              [] key = "r" -> Ret([m EXCEPT !.phase = "generating"], Generate(m))
              [] key = "e" -> Ret(m, {"openEditor"})
              [] key = "c" -> Ret([m EXCEPT !.action = "commit", !.phase = "confirm"], {})
              [] key = "P" -> Ret([m EXCEPT !.action = "push", !.phase = "confirm"], {})
              [] OTHER -> Ret(m, {}))
      [] m.phase = "confirm" ->
           (CASE key \in {"y", "Y", "enter"} ->
                   Ret([m EXCEPT !.phase = "acting"],
                       {"spinner.Tick", "tick",
                        IF m.action = "commit" THEN "runCommit" ELSE "runPush"})
              [] key \in {"n", "N", "esc", "ctrl+c"} -> Ret([m EXCEPT !.phase = "ready"], {})
              [] key = "q" -> Ret(Stopped(m), {"tea.Quit"})
              [] OTHER -> Ret(m, {}))
      [] m.phase = "result" ->
           (CASE key \in {"q", "ctrl+c"} -> Ret(Stopped(m), {"tea.Quit"})
              [] key = "P" -> ResultPush(m)
              [] OTHER -> Ret(m, {}))
      [] m.phase = "error" ->
           (IF key \in {"q", "ctrl+c"} THEN Ret(Stopped(m), {"tea.Quit"}) ELSE Ret(m, {}))
      [] OTHER -> Ret(m, {})

\* aipr 227-231: after the switch, the message goes to the viewport when the
\* text is shown, and Update returns the commands collected.
Forward(m, cmds) ==
    IF m.phase \in {"ready", "confirm"} /\ m.ready
    THEN Ret(m, cmds \cup {"viewport.Update"})
    ELSE Ret(m, cmds)

\* aipr 190-224: the tea.KeyMsg case.  A key of no case leaves the switch.
KeyPR(m, key) ==
    CASE m.phase = "ready" ->
           (CASE key \in {"q", "ctrl+c"} -> Ret(Stopped(m), {"tea.Quit"})
              [] key = "r" ->
                   Ret([m EXCEPT !.ready = FALSE, !.phase = "generating"], Generate(m))
              [] key = "e" -> Ret(m, {"openEditor"})
              [] key = "c" -> Ret([m EXCEPT !.phase = "confirm"], {})
              [] OTHER -> Forward(m, {}))
      [] m.phase = "confirm" ->
           (CASE key \in {"y", "Y", "enter"} ->
                   Ret([m EXCEPT !.phase = "acting"],
                       {"spinner.Tick", "tick", "runCreatePR"})
              [] key \in {"n", "N", "esc", "ctrl+c"} -> Ret([m EXCEPT !.phase = "ready"], {})
              [] key = "q" -> Ret(Stopped(m), {"tea.Quit"})
              [] OTHER -> Forward(m, {}))
      [] m.phase \in {"result", "error"} ->
           (IF key \in {"q", "ctrl+c"} THEN Ret(Stopped(m), {"tea.Quit"})
            ELSE Forward(m, {}))
      [] OTHER -> Forward(m, {})

\* model.Update of aicommit (122-232) and of aipr (117-234).
Update(m, msg) ==
    CASE msg.type = "spinner.TickMsg" -> Ret(m, {"spinner.Tick"})
      [] msg.type = "tickMsg" ->
           (IF m.tool = "aicommit"
            THEN Ret(m, IF m.phase \in {"generating", "acting"} THEN {"tick"} ELSE {})
            ELSE Forward(m, IF m.phase \in {"generating", "acting"} THEN {"tick"} ELSE {}))
      [] msg.type = "tea.WindowSizeMsg" ->
           (IF m.tool = "aicommit"
            THEN Ret(m, {})
            ELSE Forward(IF m.phase \in {"ready", "confirm"}
                         THEN [m EXCEPT !.width = TRUE, !.ready = TRUE]
                         ELSE [m EXCEPT !.width = TRUE], {}))
      [] msg.type = "generateDoneMsg" ->
           (IF msg.set
            THEN Ret(Stopped([m EXCEPT !.phase = "error"]), {})
            ELSE Ret(IF m.tool = "aicommit"
                     THEN [m EXCEPT !.body = "generated", !.phase = "ready"]
                     ELSE WithViewport([m EXCEPT !.body = "generated", !.phase = "ready"]),
                     {}))
      [] msg.type = "editDoneMsg" ->
           (LET edited == [m EXCEPT !.body = IF msg.set THEN "edited" ELSE @,
                                    !.phase = "ready"]
            IN  Ret(IF m.tool = "aicommit" THEN edited ELSE WithViewport(edited), {}))
      [] msg.type = "actionDoneMsg" ->
           Ret([m EXCEPT !.phase = IF msg.set THEN "error" ELSE "result"], {})
      [] msg.type = "tea.KeyMsg" ->
           (IF m.tool = "aicommit" THEN KeyCommit(m, msg.key) ELSE KeyPR(m, msg.key))

\* The program of tool, started: Init's commands are out (aicommit 116-118,
\* aipr 111-113) and no message has come yet.
Started(tool) ==
    [op |-> "update", before |-> newModel(tool), model |-> newModel(tool),
     cmds |-> Generate(newModel(tool))]

\* One call of Update by the event loop, with any message: the loop calls
\* Update until a tea.Quit is returned.
CallUpdate ==
    /\ pureOut.op = "update"
    /\ "tea.Quit" \notin pureOut.cmds
    /\ \E msg \in Msgs :
         LET r == Update(pureOut.model, msg)
         IN  /\ pureIn' = [op |-> "update", msg |-> msg]
             /\ pureOut' = [op |-> "update", before |-> pureOut.model,
                            model |-> r.model, cmds |-> r.cmds]
    /\ UNCHANGED <<orchVars, timedVars>>

InitUpdate ==
    /\ InitOrch(0, "darwin", {}, "start")
    /\ pureIn = NoPure
    /\ \E tool \in Tools : pureOut = Started(tool)
    /\ NoTimed

NextUpdate == CallUpdate

SpecUpdate == InitUpdate /\ [][NextUpdate]_vars

\* ------------------------------------------------------------------------
\* shader: Start and Session.Stop
\* ------------------------------------------------------------------------

\* A config has at most this many lines.
MaxConfigLines == 3

\* shaderKey and snowShader (shader.go 14-18), each one symbol of a content.
shaderKey == "custom-shader"
snowShader == "shaders/just-snow.glsl"

\* The place of the last symbol of the line that holds place p.
LineEnd(s, p) ==
    IF \E q \in p..Len(s) : s[q] = NL
    THEN (CHOOSE q \in p..Len(s) : s[q] = NL /\ \A r \in p..(q - 1) : s[r] # NL) - 1
    ELSE Len(s)

\* The first place from p on that holds no white space (Len(s) + 1 if none):
\* what a greedy \s* consumes.
SkipSpace(s, p) ==
    IF \E q \in p..Len(s) : ~IsSpace(s[q])
    THEN CHOOSE q \in p..Len(s) : ~IsSpace(s[q]) /\ \A r \in p..(q - 1) : IsSpace(s[r])
    ELSE Len(s) + 1

\* No match.
NoMatch == [found |-> FALSE, from |-> 0, to |-> 0, value |-> <<>>]

\* shaderLine, `(?m)^custom-shader\s*=\s*(.+)$` (shader.go 20), matched at
\* place i: the key at the start of a line, white space (\s matches a line
\* break too), "=", white space, and one or more symbols other than a line
\* break up to the end of a line.  The second \s* is greedy and gives back
\* white space until (.+) has a symbol to start from.
MatchAt(s, i) ==
    IF ~(i <= Len(s) /\ s[i] = shaderKey /\ (i = 1 \/ s[i - 1] = NL)) THEN NoMatch
    ELSE LET eq == SkipSpace(s, i + 1)
         IN  IF ~(eq <= Len(s) /\ s[eq] = "=") THEN NoMatch
             ELSE LET stop == SkipSpace(s, eq + 1)
                      starts == {p \in (eq + 1)..stop : p <= Len(s) /\ s[p] # NL}
                  IN  IF starts = {} THEN NoMatch
                      ELSE LET p == CHOOSE x \in starts : \A y \in starts : y <= x
                           IN  [found |-> TRUE, from |-> i, to |-> LineEnd(s, p),
                                value |-> SubSeq(s, p, LineEnd(s, p))]

\* shaderLine.FindStringSubmatch: the leftmost match.
FindStringSubmatch(s) ==
    IF \E i \in 1..Len(s) : MatchAt(s, i).found
    THEN MatchAt(s, CHOOSE i \in 1..Len(s) :
                       MatchAt(s, i).found /\ \A j \in 1..(i - 1) : ~MatchAt(s, j).found)
    ELSE NoMatch

RECURSIVE ReplaceFrom(_, _, _)
\* shaderLine.ReplaceAllString from place i on: every match, left to right
\* and without overlap, becomes repl.
ReplaceFrom(s, i, repl) ==
    IF i > Len(s) THEN <<>>
    ELSE IF MatchAt(s, i).found
         THEN repl \o ReplaceFrom(s, MatchAt(s, i).to + 1, repl)
         ELSE <<s[i]>> \o ReplaceFrom(s, i + 1, repl)

ReplaceAllString(s, repl) == ReplaceFrom(s, 1, repl)

\* shaderKey + " = " + value, as the template of the replacement (no symbol
\* of the contents drawn is a "$", so the template stands for itself).
ShaderLineOf(value) == <<shaderKey, SP, "=", SP>> \o value

\* &Session{}: Stop does nothing with it.
NoSession == [original |-> <<>>, pid |-> FALSE]

\* Start (shader.go 30-63) on a config file with the given content: the file
\* after it, the session and whether it returned an error.  running: pgrep
\* finds Ghostty; writes: os.WriteFile succeeds; reloads: kill -USR2 succeeds.
ShaderStart(content, running, writes, reloads) ==
    LET match == FindStringSubmatch(content)
        original == IF match.found THEN TrimSpace(match.value) ELSE <<>>
        updated == ReplaceAllString(content, ShaderLineOf(<<snowShader>>))
    IN  IF ~running THEN [file |-> content, session |-> NoSession, err |-> FALSE]
        ELSE IF original # <<snowShader>>
             THEN IF ~writes THEN [file |-> content, session |-> NoSession, err |-> TRUE]
                  ELSE IF ~reloads
                       THEN [file |-> content, session |-> NoSession, err |-> FALSE]
                       ELSE [file |-> updated,
                             session |-> [original |-> original, pid |-> TRUE],
                             err |-> FALSE]
             ELSE [file |-> content, session |-> [original |-> original, pid |-> TRUE],
                   err |-> FALSE]

\* Session.Stop (shader.go 66-89) on the file as it is then: the file after it.
ShaderStop(session, content) ==
    IF ~session.pid \/ session.original = <<snowShader>> THEN content
    ELSE IF session.original = <<>> THEN ReplaceAllString(content, <<>>)
    ELSE ReplaceAllString(content, ShaderLineOf(session.original))

\* The lines a config is drawn from: none, another setting, and the shader
\* setting with a shader, with the snow shader, without spaces, and with no
\* value.
ConfigLines ==
    {<<>>, <<"font-size", SP, "=", SP, "12">>,
     <<shaderKey, SP, "=", SP, "a.glsl">>,
     <<shaderKey, SP, "=", SP, "b.glsl">>,
     <<shaderKey, "=", "a.glsl", SP>>,
     <<shaderKey, SP, "=", SP, snowShader>>,
     <<shaderKey, SP, "=">>}

RECURSIVE JoinLines(_)
\* The content of a file of the given lines.
JoinLines(lines) ==
    IF lines = <<>> THEN <<>>
    ELSE IF Len(lines) = 1 THEN lines[1]
    ELSE lines[1] \o <<NL>> \o JoinLines(Tail(lines))

\* The runs: a config file, whether Ghostty runs, whether the write and the
\* reload of Start succeed.
ShaderInputs(max) ==
    {[op |-> "shader", content |-> JoinLines(lines) \o end, running |-> r,
      writes |-> w, reloads |-> k] :
        lines \in SeqsOf(ConfigLines, 0, max), end \in {<<>>, <<NL>>},
        r \in BOOLEAN, w \in BOOLEAN, k \in BOOLEAN}

\* main calls shader.Start (aicommit 396, aipr 431).
CallShaderStart ==
    /\ pureIn.op = "shader"
    /\ pureOut = NoPure
    /\ LET r == ShaderStart(pureIn.content, pureIn.running, pureIn.writes, pureIn.reloads)
       IN  pureOut' = [op |-> "shader", stage |-> "started", file |-> r.file,
                       started |-> r.file, session |-> r.session, err |-> r.err,
                       stops |-> 0]
    /\ UNCHANGED <<orchVars, pureIn, timedVars>>

\* Session.Stop is called, by Update or by main (aicommit 403, aipr 438); on
\* an error of Start, on the empty session main puts in its place.
CallShaderStop ==
    /\ pureOut.op = "shader"
    /\ pureOut.stops < MaxStops
    /\ pureOut' = [pureOut EXCEPT !.stage = "stopped",
                                  !.file = ShaderStop(pureOut.session, pureOut.file),
                                  !.stops = @ + 1]
    /\ UNCHANGED <<orchVars, pureIn, timedVars>>

InitShader ==
    /\ InitOrch(0, "darwin", {}, "start")
    /\ pureIn \in ShaderInputs(MaxConfigLines)
    /\ pureOut = NoPure
    /\ NoTimed

NextShader ==
    \/ CallShaderStart
    \/ CallShaderStop

SpecShader == InitShader /\ [][NextShader]_vars

\* ------------------------------------------------------------------------
\* The secondary lane with a clock
\* ------------------------------------------------------------------------

\* The ticks one install takes.
InstallTime == 2

\* The most goroutines the timed lane starts.
MaxTimed == 8

\* The secondary lane of lines 760-790 with n packages that are not installed:
\* every goroutine has been started and waits for a slot.
InitTimed ==
    /\ InitOrch(0, "darwin", {}, "start")
    /\ pureIn = NoPure
    /\ pureOut = NoPure
    /\ now = 0
    /\ \E n \in 1..MaxTimed :
          /\ tpc = [w \in 1..n |-> "spawned"]
          /\ tleft = [w \in 1..n |-> 0]

\* The goroutines that hold a slot of sem.
Holders == {w \in DOMAIN tpc : tpc[w] = "install"}

\* A channel with one slot.
TimedSemHasRoomSerial(holders) == holders = {}

\* `sem <- struct{}{}` on the channel of line 763 can proceed.
TimedSemHasRoom(holders) == Cardinality(holders) < SemCap

\* Line 769 can proceed for goroutine w.
CanAcquire(w) == tpc[w] = "spawned" /\ TimedSemHasRoom(Holders)

\* Install of goroutine w has returned: lines 774-786 and the deferred calls
\* can run.
CanRecord(w) == tpc[w] = "install" /\ tleft[w] = 0

\* Lines 769-772: the goroutine takes a slot and calls Install, which takes
\* InstallTime ticks; the detection inside it takes none.
TimedAcquire(w) ==
    /\ CanAcquire(w)
    /\ tpc' = [tpc EXCEPT ![w] = "install"]
    /\ tleft' = [tleft EXCEPT ![w] = InstallTime]
    /\ UNCHANGED <<now, orchVars, pureVars>>

\* Lines 774-786, 770, 768: the result is recorded, the slot and the
\* WaitGroup released.
TimedRecord(w) ==
    /\ CanRecord(w)
    /\ tpc' = [tpc EXCEPT ![w] = "done"]
    /\ UNCHANGED <<now, tleft, orchVars, pureVars>>

\* One tick passes.  A goroutine that can run does so before time passes, so
\* the clock moves only while every goroutine waits: for its install to
\* return or for a slot.
Tick ==
    /\ \A w \in DOMAIN tpc : ~CanAcquire(w) /\ ~CanRecord(w)
    /\ Holders # {}
    /\ now' = now + 1
    /\ tleft' = [w \in DOMAIN tleft |-> IF tpc[w] = "install" THEN tleft[w] - 1 ELSE tleft[w]]
    /\ UNCHANGED <<tpc, orchVars, pureVars>>

NextTimed ==
    \/ \E w \in DOMAIN tpc : TimedAcquire(w)
    \/ \E w \in DOMAIN tpc : TimedRecord(w)
    \/ Tick

SpecTimed == InitTimed /\ [][NextTimed]_vars

\* wg.Wait of line 789 returns.
TimedLaneReturned == \A w \in DOMAIN tpc : tpc[w] = "done"

\* ------------------------------------------------------------------------
\* Properties of the functions on their own
\* ------------------------------------------------------------------------

\* C10: for every catalog and every target t, FilterForTarget(t) returns
\* exactly the packages whose platform-target map contains key t, each once
\* and in catalog order; no package without key t is returned.
C10_FilterExact ==
    pureOut.op = "filter" =>
        LET cat == pureIn.catalog
            res == pureOut.result
            keep == {i \in 1..Len(cat) : pureIn.target \in DOMAIN cat[i].Packages}
        IN  /\ Len(res) = Cardinality(keep)
            /\ \A i \in keep : res[Cardinality({k \in keep : k <= i})] = cat[i]
            /\ \A j \in 1..Len(res) : pureIn.target \in DOMAIN res[j].Packages

\* A catalog of three packages whose middle one has no method for the target:
\* the first and the third are returned, in that order.
C10_Witness ==
    /\ pureOut.op = "filter"
    /\ Len(pureIn.catalog) = 3
    /\ pureIn.target \notin DOMAIN pureIn.catalog[2].Packages
    /\ pureOut.result = <<pureIn.catalog[1], pureIn.catalog[3]>>

\* The names a whitespace-joined specifier is made of.
NamesOfSpec(spec) == {spec[i] : i \in 1..Len(spec)} \ {SP, NL}

\* C8: for a dnf method whose specifier is several names joined by
\* whitespace, IsInstalled returns true if and only if every name is in the
\* enumerated installed set; with any one of the names taken out of the set
\* it returns false.
C8_DnfAllNames ==
    pureOut.op = "dnf" =>
        /\ pureOut.result <=> (NamesOfSpec(pureIn.spec) \subseteq pureIn.installed)
        /\ \A n \in NamesOfSpec(pureIn.spec) :
              ~IsInstalledIn(DnfMethod(pureIn.spec),
                             Loader("dnf", RpmOutput(1, pureIn.installed \ {n}), {}))

\* "gcc gcc-c++ make" in some order with all three installed: reported
\* installed.
C8_Witness ==
    /\ pureOut.op = "dnf"
    /\ Cardinality(NamesOfSpec(pureIn.spec)) = 3
    /\ pureOut.result = TRUE

\* The indices of the steps of an action that fail and whose failure the
\* action returns.
ReturnedFailures(steps, fails) ==
    {i \in 1..Len(steps) : steps[i].propagates /\ steps[i].name \in fails}

KeyOf(n) == CacheKey(MethodName(MethodOf(PackageNamed(n))))

\* The selected packages of the target whose kind is cache-backed.
CacheBacked ==
    {n \in selected \cap NamesFor(target) :
        MethodName(MethodOf(PackageNamed(n))) \in CacheKinds}

\* C1: InstalledCache.get, and so IsInstalled for every cache-backed kind,
\* runs the enumeration loader of a kind at most once in the lifetime of one
\* PackageInstaller, for every interleaving of the workers' first accesses
\* and any number of queried packages.
C1_LoaderAtMostOnce ==
    \A k \in CacheKeys : loads[k] <= 1

\* Two workers of the same kind are inside Install at once: one runs the
\* loader, the other has not got the mutex yet.
C1_Witness ==
    \E w \in CacheBacked : \E v \in CacheBacked \ {w} :
        /\ KeyOf(w) = KeyOf(v)
        /\ wpc[w] = "loading"
        /\ wpc[v] = "install"
        /\ loads[KeyOf(w)] = 1

\* The workers whose call to Install is in progress.
InInstall == {w \in Names : wpc[w] \in {"install", "loading"}}

\* C2: in the secondary lane at most 4 calls to Install are in progress at
\* the same time, whatever the number of secondary packages.
C2_AtMostFourInstalls ==
    Cardinality(InInstall) <= 4

\* Four calls are in progress while a fifth worker waits for a slot.
C2_Witness ==
    /\ Cardinality(InInstall) = 4
    /\ \E w \in Names : wpc[w] = "spawned"

\* Whether a result belongs to the batched lane: its method is a system kind.
IsBatchedResult(r) == r.Method \in Range(SystemKinds)

\* The install invocations of kind k in the log.
InstallEntries(k) ==
    {i \in 1..Len(log) : log[i].cmd = "install" /\ log[i].kind = k}

\* The workers that have started Install.
StartedInstall == {w \in Names : wpc[w] \in {"install", "loading", "record", "done"}}

\* C3: no secondary-lane worker starts Install before every batched-lane
\* invocation (brew, cask, apt, dnf) has returned and its results have been
\* appended; hence in a.results every batched-lane result precedes every
\* secondary-lane result.
C3_BatchedLaneFirst ==
    /\ StartedInstall # {} =>
          \A k \in Range(SystemKinds) :
              Len(pending[k].names) > 0 =>
                  /\ InstallEntries(k) # {}
                  /\ \A i \in 1..Len(pending[k].names) :
                        \E j \in 1..Len(results) :
                            /\ results[j].Name = pending[k].names[i]
                            /\ results[j].Status \in {"done", "fail"}
    /\ \A i \in 1..Len(results) : \A j \in 1..Len(results) :
          (IsBatchedResult(results[i]) /\ ~IsBatchedResult(results[j])) => i < j

\* The step has returned with the result of a batch and, after it, the result
\* of a secondary package.
C3_Witness ==
    /\ pc = "done"
    /\ \E i \in 1..Len(results) : \E j \in 1..Len(results) :
          /\ i < j
          /\ IsBatchedResult(results[i])
          /\ results[i].Status = "done"
          /\ ~IsBatchedResult(results[j])

\* The selected packages of kind k that detection found not installed, in
\* catalog order.
PendingOf(k) ==
    LET isPending == {n \in selected \cap NamesFor(target) :
                         /\ MethodName(MethodOf(PackageNamed(n))) = k
                         /\ detected[n] = "no"}
    IN  SelectLoop(FilterForTarget(Catalog, target), isPending, 1, <<>>)

\* The specifiers of the packages of a sequence, joined by single spaces.
RECURSIVE SpaceJoined(_)
SpaceJoined(pkgs) ==
    IF pkgs = <<>> THEN <<>>
    ELSE SystemSpec(MethodOf(Head(pkgs)))
         \o (IF Len(pkgs) > 1 THEN <<SP>> ELSE <<>>)
         \o SpaceJoined(Tail(pkgs))

\* The batched lane is over: the step is in, or past, the secondary lane.
BatchedLaneOver ==
    /\ pc \in {"lanes", "wait", "done"}
    /\ phase = Len(PhaseOrder)

\* C4: for each system kind K in {brew, cask, apt, dnf} the step issues
\* exactly one install invocation for K when at least one selected package of
\* kind K was detected as not installed, and none otherwise; the invocation
\* names exactly the specifiers of those pending packages, space-joined in
\* catalog order, however many packages share the kind.
C4_OneBatchPerKind ==
    \A k \in Range(SystemKinds) :
        LET entries == InstallEntries(k)
            pendingK == PendingOf(k)
        IN  /\ Cardinality(entries) <= 1
            /\ \A i \in entries :
                  /\ pendingK # <<>>
                  /\ log[i].args = SpaceJoined(pendingK)
            /\ (BatchedLaneOver /\ pendingK # <<>>) => entries # {}

\* Two packages share a kind and are both pending: one invocation names both.
C4_Witness ==
    /\ BatchedLaneOver
    /\ \E k \in Range(SystemKinds) : \E i \in InstallEntries(k) :
          /\ Len(PendingOf(k)) = 2
          /\ log[i].args = SpaceJoined(PendingOf(k))

\* Some batched install of the run failed.
SomeBatchFailed ==
    \E i \in 1..Len(log) : log[i].cmd = "install" /\ log[i].err

\* C5: a failing batched install for one system kind does not prevent the
\* batched install attempt of any other system kind that has pending
\* packages, and does not prevent the secondary lane from running every
\* secondary package.
C5_BatchFailureGoesOn ==
    (pc = "done" /\ SomeBatchFailed) =>
        /\ ret = "nil"
        /\ \A k \in Range(SystemKinds) :
              Len(pending[k].names) > 0 => InstallEntries(k) # {}
        /\ \A i \in 1..Len(Secondary) :
              /\ wpc[Secondary[i].Name] = "done"
              /\ \E j \in 1..Len(results) : results[j].Name = Secondary[i].Name

\* The brew batch failed; the cask batch was attempted after it and a
\* secondary package ran.
C5_Witness ==
    /\ pc = "done"
    /\ \E i \in InstallEntries("brew") : \E j \in InstallEntries("cask") :
          log[i].err /\ i < j
    /\ Len(Secondary) > 0
    /\ \A i \in 1..Len(Secondary) : wpc[Secondary[i].Name] = "done"

\* The results recorded for the package named n.
ResultsOf(n) == {i \in 1..Len(results) : results[i].Name = n}

\* C7: no install invocation, batched or individual, is ever issued for a
\* package whose detection (IsInstalled) returned true in the install step;
\* such a package is recorded with status ok and nothing else.
C7_InstalledNotReinstalled ==
    \A n \in Names :
        detected[n] = "yes" =>
            /\ attempts[n] = 0
            /\ \A i \in 1..Len(log) :
                  log[i].cmd = "install" => n \notin Range(log[i].names)
            /\ \A i \in ResultsOf(n) : results[i].Status = "ok"
            /\ Cardinality(ResultsOf(n)) <= 1
            /\ pc = "done" => Cardinality(ResultsOf(n)) = 1

\* One package of a kind is installed already and another is not: the batch
\* of the kind ran, and the installed package has its one ok result.
C7_Witness ==
    /\ pc = "done"
    /\ \E n \in Names :
          /\ detected[n] = "yes"
          /\ InstallEntries(MethodName(MethodOf(PackageNamed(n)))) # {}
          /\ Cardinality(ResultsOf(n)) = 1

\* The selected packages whose detection has answered and whose kind's
\* enumeration command failed.
DetectedAfterFailure ==
    {n \in CacheBacked : enumErr[KeyOf(n)] = "fail" /\ detected[n] # "none"}

\* The package named n has gone on to an install attempt: it is among the
\* pending packages of its kind's batch, or its Install reached the dispatch.
ProceedsToInstall(n) ==
    IF IsSystemMethod(MethodOf(PackageNamed(n)))
    THEN n \in Range(pending[MethodName(MethodOf(PackageNamed(n)))].names)
    ELSE attempts[n] = 1

WellFormedEntry(raw) == raw.json = "object" /\ raw.packages.json = "object"

\* The keys of a document that name package entries: the ones that do not
\* start with an underscore.
PackageKeys(entries) == {k \in DOMAIN entries : k = <<>> \/ Head(k) # "_"}

\* C11, for the documents whose tap list decodes: for every catalog document
\* that is a JSON object, LoadPackages skips each package entry that cannot
\* be decoded and still returns, without error or abort, a catalog containing
\* every well-formed entry of the document.
C11_MalformedEntriesSkipped ==
    (pureOut.op = "load" /\ pureIn.taps # "bad") =>
        /\ pureOut.result.status = "ok"
        /\ \A k \in PackageKeys(pureIn.entries) :
              WellFormedEntry(pureIn.entries[k]) <=>
                  \E i \in 1..Len(pureOut.result.packages) :
                      pureOut.result.packages[i].Name = k

\* The unmount command is among the commands of a call of installDmg.
Unmounted(result) ==
    \E i \in 1..Len(result.cmds) : result.cmds[i].cmd = "hdiutil detach"

\* The mount command of a call of installDmg ran and exited zero.
MountSucceeded ==
    /\ pureIn.fails \cap {"resolve", "asset", "download", "mount"} = {}
    /\ \E i \in 1..Len(pureOut.result.cmds) :
          pureOut.result.cmds[i].cmd = "hdiutil attach"

\* The attach printed a line that names a path under /Volumes/.
MountPointKnown ==
    \E i \in 1..Len(pureIn.mountOut) : pureIn.mountOut[i] = "/Volumes/"

\* C12: in installDmg, once the volume is mounted and its mount point known,
\* the unmount command is executed when the copy of the application bundle
\* fails, exactly as when it succeeds: once, for the mount point, as the last
\* command.
C12_UnmountWhenCopyFails ==
    (pureOut.op = "dmg" /\ MountSucceeded /\ MountPointKnown) =>
        LET cmds == pureOut.result.cmds
        IN  /\ cmds[Len(cmds)] = Command("hdiutil detach", Volume)
            /\ Cardinality({i \in 1..Len(cmds) : cmds[i].cmd = "hdiutil detach"}) = 1

\* The copy failed: the error is the copy's, and the detach ran after the cp.
C12_Witness ==
    /\ pureOut.op = "dmg"
    /\ pureOut.result.err = <<"copy app: ", ExitErr>>
    /\ LET cmds == pureOut.result.cmds
       IN  /\ cmds[Len(cmds) - 1].cmd = "cp"
           /\ cmds[Len(cmds)] = Command("hdiutil detach", Volume)

\* C13: on every return path of installDmg that follows a successful mount
\* command, the unmount command has been executed.
C13_UnmountOnEveryPath ==
    (pureOut.op = "dmg" /\ MountSucceeded) => Unmounted(pureOut.result)

\* C14: for a gh_extension package that is not already installed, when the
\* hosting CLI reports itself not authenticated Install returns status skip
\* with a not-authenticated reason, never fail, and issues no
\* extension-install command.
C14_GhNotAuthenticatedSkips ==
    (/\ pureOut.op = "install"
     /\ pureIn.target \in DOMAIN pureIn.pkg.Packages
     /\ pureIn.pkg.Packages[pureIn.target].GhExtension # <<>>
     /\ MethodName(pureIn.pkg.Packages[pureIn.target]) = "gh_extension"
     /\ ~pureIn.isInstalled
     /\ pureIn.authFails) =>
        /\ pureOut.result.Status = "skip"
        /\ pureOut.result.Error = <<"gh not authenticated">>
        /\ pureOut.calls = <<"IsInstalled", "gh auth status">>

\* An extension whose install command would also fail, on a CLI that is not
\* authenticated: skip.
C14_Witness ==
    /\ pureOut.op = "install"
    /\ pureIn.target \in DOMAIN pureIn.pkg.Packages
    /\ MethodName(pureIn.pkg.Packages[pureIn.target]) = "gh_extension"
    /\ ~pureIn.isInstalled
    /\ pureIn.authFails
    /\ pureIn.fails = {"install"}
    /\ pureOut.result.Status = "skip"

\* C15: for a package that has no install method for the installer's target,
\* Install returns status skip, never fail, and runs neither detection nor
\* any install command.
C15_NoMethodSkips ==
    (pureOut.op = "install" /\ pureIn.target \notin DOMAIN pureIn.pkg.Packages) =>
        /\ pureOut.result.Status = "skip"
        /\ pureOut.result.Name = pureIn.pkg.Name
        /\ pureOut.calls = <<>>

\* A package with a darwin method only, installed on fedora.
C15_Witness ==
    /\ pureOut.op = "install"
    /\ pureIn.target = "fedora"
    /\ DOMAIN pureIn.pkg.Packages = {"darwin"}
    /\ pureOut.result = InstallResult(pureIn.pkg.Name, "n/a", "skip", NoError)

\* The positions in KindFields of the variants a method has populated.
Populated(im) ==
    { i \in 1..Len(KindFields) : im[KindFields[i][2]] # EmptyMethod[KindFields[i][2]] }

\* C16: MethodName returns the kind of the first populated variant in the
\* fixed order brew, cask, apt, dnf, uv_tool, cargo, go_tool, snap, flatpak,
\* yay, gh_extension, eget, manual, and "unknown" exactly when no variant is
\* populated; IsInstalled and Install both take the case of that same kind
\* and work on the value of that variant.
C16_FirstPopulatedVariant ==
    pureOut.op = "kind" =>
        LET pop == Populated(pureIn.method)
        IN  /\ pop = {} <=> pureOut.kind = "unknown"
            /\ pop # {} =>
                  LET first == CHOOSE i \in pop : \A j \in pop : i <= j
                  IN  /\ pureOut.kind = KindFields[first][1]
                      /\ pureOut.detect.arg = pureOut.install.arg
            /\ pureOut.detect.kind = pureOut.kind
            /\ pureOut.install.kind = pureOut.kind

\* A method with the cask and the cargo variants populated: cask.
C16_Witness ==
    /\ pureOut.op = "kind"
    /\ Populated(pureIn.method) = {2, 6}
    /\ pureOut.kind = "cask"
    /\ pureOut.install = [kind |-> "cask", arg |-> W("cask")]

\* The assets of the release whose name ends with the pattern asked for.
Matching ==
    { i \in 1..Len(pureIn.assets) : EndsWith(pureIn.assets[i].name, pureIn.pattern) }

\* C17: resolveGhAssetURL returns an error when no release asset matches the
\* configured suffix and also when more than one asset matches it; it
\* returns a URL only when exactly one asset matches.
C17_ExactlyOneMatch ==
    pureOut.op = "resolve" =>
        /\ Cardinality(Matching) # 1 => pureOut.ret.err # NoError
        /\ pureOut.ret.err = NoError =>
              \E i \in Matching :
                  Matching = {i} /\ pureOut.ret.url = pureIn.assets[i].url

\* C18 as stated: isManualInstalled decides by the first configured test
\* only: check_command if set (true iff that command exists); else check_dir
\* if set (true iff the expanded directory exists); else dest if set (true
\* iff the expanded path exists); else for dmg-type methods true iff an
\* application bundle matching the package name exists; else true iff a
\* command named after the package exists.
C18_FirstConfiguredOnly ==
    pureOut.op = "manual" =>
        LET m == pureIn.manual
            env == pureIn.env
        IN  pureOut.installed =
              IF m.CheckCommand # <<>> THEN m.CheckCommand \in env.commands
              ELSE IF m.CheckDir # <<>> THEN Home \o Tail(m.CheckDir) \in env.dirs
              ELSE IF m.Dest # <<>>
              THEN Home \o Tail(m.Dest) \in env.dirs \cup env.files
              ELSE IF m.Type = "dmg"
              THEN <<"Ghostty", ".app">> \in env.apps
              ELSE pureIn.name \in env.commands

\* C18, amended: check_command, when set, decides alone (true iff that
\* command exists).  Otherwise the answer is true iff at least one of these
\* holds: check_dir is set and the expanded directory exists; dest is set
\* and the expanded path exists; the method is dmg-type and an application
\* bundle matching the package name exists; a command named after the
\* package exists.
C18_AnyPositiveTest ==
    pureOut.op = "manual" =>
        LET m == pureIn.manual
            env == pureIn.env
        IN  IF m.CheckCommand # <<>>
            THEN pureOut.installed = (m.CheckCommand \in env.commands)
            ELSE pureOut.installed =
                    \/ m.CheckDir # <<>> /\ Home \o Tail(m.CheckDir) \in env.dirs
                    \/ m.Dest # <<>> /\ Home \o Tail(m.Dest) \in env.dirs \cup env.files
                    \/ m.Type = "dmg" /\ <<"Ghostty", ".app">> \in env.apps
                    \/ pureIn.name \in env.commands

\* check_dir is configured and the directory is missing, no other test is
\* configured, and the command named after the package exists: installed.
C18_Witness ==
    /\ pureOut.op = "manual"
    /\ pureIn.manual.CheckCommand = <<>>
    /\ pureIn.manual.CheckDir # <<>>
    /\ pureIn.manual.Dest = <<>>
    /\ pureIn.manual.Type = "script"
    /\ pureIn.env.dirs = {}
    /\ pureIn.name \in pureIn.env.commands
    /\ pureOut.installed

\* The positions of the log with the given command.
LogOf(cmd) == {i \in 1..Len(log) : log[i].cmd = cmd}

\* The taps registered so far, in the order of their registration.
RegisteredTaps ==
    LET at == LogOf("tap")
        nth(k) == CHOOSE i \in at : Cardinality({j \in at : j <= i}) = k
    IN  [k \in 1..Cardinality(at) |-> log[nth(k)].args]

\* C19 as stated: in a confirmed install step with a non-empty tap list,
\* every tap is registered exactly once, sequentially in catalog order, and
\* all tap registrations have finished before the first batched install.
C19_EveryTapRegistered ==
    (BrewTaps # <<>> /\ LogOf("lookpath") # {}) =>
        /\ RegisteredTaps = BrewTaps
        /\ \A i \in LogOf("tap"), j \in LogOf("install") : i < j

\* C19, amended: in a confirmed install step with a non-empty tap list, when
\* the brew command is found every tap is registered exactly once,
\* sequentially in catalog order, and when it is not found no tap is
\* registered; no tap is registered before the step is confirmed, and all
\* tap registrations have finished before the first batched install.
C19_TapsWhenBrewExists ==
    /\ LogOf("lookpath") = {} => LogOf("tap") \cup LogOf("install") = {}
    /\ pc \in {"start", "confirm", "taps"} => LogOf("lookpath") = {}
    /\ \A l \in LogOf("lookpath") :
          /\ LogOf("lookpath") = {l}
          /\ RegisteredTaps = IF log[l].err THEN <<>> ELSE BrewTaps
          /\ \A i \in LogOf("tap") : l < i
    /\ \A i \in LogOf("tap"), j \in LogOf("install") : i < j

\* Both taps were registered, and a batched install was issued after them.
C19_Witness ==
    /\ RegisteredTaps = BrewTaps
    /\ Len(BrewTaps) = 2
    /\ LogOf("install") # {}

SecondaryLaneReturned == pc = "done" /\ phase = Len(PhaseOrder)

\* C21: the secondary lane returns only after every worker has finished, and
\* at that point a.results holds exactly one result for each secondary
\* package, the one its worker computed; under every interleaving of the
\* workers a worker that has recorded has exactly one result in a.results
\* and a worker that has not has none.
C21_OneResultPerWorker ==
    LET sec == Secondary
    IN  /\ SecondaryLaneReturned =>
              \A i \in 1..Len(sec) : wpc[sec[i].Name] = "done"
        /\ \A i \in 1..Len(sec) :
              LET w == sec[i].Name
                  at == ResultsOf(w)
              IN  IF wpc[w] = "done"
                  THEN \E r \in at : at = {r} /\ results[r] = wres[w]
                  ELSE at = {}

\* The lane has returned with three workers whose results were recorded in
\* an order other than the order in which they were started.
C21_Witness ==
    /\ SecondaryLaneReturned
    /\ Len(Secondary) = 3
    /\ Len(results) = 3
    /\ results[1].Name = Secondary[3].Name
    /\ results[3].Name = Secondary[1].Name

\* The positions of the summarised results with the given status.
WithStatus(st) ==
    {i \in 1..Len(pureIn.results) : pureIn.results[i].Status = st}

\* C22: showSummary's four counts (installed, already-ok, skipped, failed)
\* add up to the number of recorded results, each being the number of
\* results of its status, and the failed-name list is exactly the names of
\* the results with status fail, in recording order.
C22_SummaryCounts ==
    pureOut.op = "summary" =>
        LET s == pureOut.summary
            failedAt == WithStatus("fail")
            nth(k) == CHOOSE i \in failedAt : Cardinality({j \in failedAt : j <= i}) = k
        IN  /\ s.installed + s.alreadyOK + s.skipped + s.failed = Len(pureIn.results)
            /\ s.installed = Cardinality(WithStatus("done"))
            /\ s.alreadyOK = Cardinality(WithStatus("ok"))
            /\ s.skipped = Cardinality(WithStatus("skip"))
            /\ s.failed = Cardinality(failedAt)
            /\ s.failedPkgs =
                  [k \in 1..Cardinality(failedAt) |-> pureIn.results[nth(k)].Name]

\* Two failures around a success: both names, in recording order.
C22_Witness ==
    /\ pureOut.op = "summary"
    /\ Len(pureIn.results) = 3
    /\ pureIn.results[1].Status = "fail" /\ pureIn.results[1].Name = "bottom"
    /\ pureIn.results[2].Status = "done"
    /\ pureIn.results[3].Status = "fail" /\ pureIn.results[3].Name = "atuin"
    /\ pureOut.summary.failedPkgs = <<"bottom", "atuin">>
    /\ pureOut.summary.failed = 2

\* The user has confirmed the step: the tap phase, which follows the
\* confirmation at once, has looked for brew.
Confirmed == LogOf("lookpath") # {}

\* A command of the step, an enumeration or an install has failed: a tap or
\* a package-list update or a batched install exited non-zero, brew was not
\* found, an enumeration failed, or a result has status fail.
SomethingFailed ==
    \/ \E i \in 1..Len(log) : log[i].err
    \/ \E key \in DOMAIN enumErr : enumErr[key] = "fail"
    \/ \E i \in 1..Len(results) : results[i].Status = "fail"

\* C23: once the user has confirmed the install step, stepInstallPackages
\* returns nil whatever tap registrations, index refreshes, enumerations or
\* install commands fail: the step goes on to the end of its last phase and
\* every package to install has its result.
C23_ConfirmedReturnsNil ==
    (Confirmed /\ pc = "done") =>
        /\ ret = "nil"
        /\ phase = Len(PhaseOrder)
        /\ \A i \in 1..Len(ToInstall) : ResultsOf(ToInstall[i].Name) # {}

\* A confirmed step that has returned after a failed command.
C23_Witness ==
    /\ Confirmed
    /\ pc = "done"
    /\ ret = "nil"
    /\ SomethingFailed
    /\ \E i \in LogOf("update") \cup LogOf("tap") : log[i].err

\* The distribution ID of the os-release file under detection, <<>> when the
\* file has no ID line.
ReleaseId ==
    LET lines == SplitLines(pureIn.release)
        at == {i \in 1..Len(lines) : lines[i] # <<>> /\ Head(lines[i]) = "ID="}
    IN  IF at = {} THEN <<>>
        ELSE SelectSeq(lines[CHOOSE i \in at : TRUE], LAMBDA c : c \notin {"ID=", "\""})

\* C24: detectOS yields target "darwin" on macOS; on Linux it yields
\* "ubuntu" and "fedora" for those distribution IDs, "pop_os" for ID "pop",
\* and the generic "linux" for every other (unknown) distribution ID as well
\* as when the OS-release file is missing.
C24_TargetOfDistribution ==
    pureOut.op = "detect" =>
        IF pureIn.goos = "darwin" THEN pureOut.target = W("darwin")
        ELSE IF pureIn.readErr THEN pureOut.target = W("linux")
        ELSE IF ReleaseId \in {W("ubuntu"), W("fedora")}
        THEN pureOut.target = ReleaseId
        ELSE IF ReleaseId = W("pop") THEN pureOut.target = W("pop_os")
        ELSE pureOut.target = W("linux")

\* The number of install invocations a package is included in: the batched
\* installs that name it and the individual installs of its worker.
Invocations(n) ==
    Cardinality({i \in LogOf("install") : n \in Range(log[i].names)}) + attempts[n]

\* C25: within one run of the install step, each selected package is
\* included in at most one install invocation (its kind's batch or its
\* single individual install); a failed install is never attempted again.
C25_AtMostOneInvocation ==
    \A n \in Names :
        /\ Invocations(n) <= 1
        /\ n \notin selected => Invocations(n) = 0
        /\ (\E i \in ResultsOf(n) : results[i].Status = "fail") => Invocations(n) = 1

\* The step has returned with a package whose individual install failed,
\* after its one attempt.
C25_Witness ==
    /\ pc = "done"
    /\ \E n \in selected :
          /\ attempts[n] = 1
          /\ \E i \in ResultsOf(n) : results[i].Status = "fail"

\* C26: once the installed set of a kind has been memoized it never changes
\* for the rest of the run, also not when the engine itself installs a
\* package of that kind, so IsInstalled gives the same answer for a
\* cache-backed kind and identifier at every later query: each step keeps
\* every memoized set, and with it the answer for every package of the
\* catalog.
C26_MemoizedNeverChanges ==
    [][\A k \in DOMAIN cache :
          /\ k \in DOMAIN cache'
          /\ cache'[k] = cache[k]
          /\ \A n \in NamesFor(target) :
                IsInstalledIn(PackageNamed(n).Packages[target], cache'[k])
                    = IsInstalledIn(PackageNamed(n).Packages[target], cache[k])]_vars

\* The wizard memoized the cask set and installed the cask proton-pass; the
\* package step then detected a cask package from that same set, which still
\* lacks proton-pass, installed its cask batch, and returned.
C26_Witness ==
    /\ pc = "done"
    /\ LogOf("wizard") # {}
    /\ loads["cask"] = 1
    /\ ProtonPass \notin cache["cask"]
    /\ \E n \in selected : KeyOf(n) = "cask" /\ detected[n] = "no"
    /\ InstallEntries("cask") # {}
    /\ Cardinality(DOMAIN cache) >= 2

\* C27: with 8 secondary packages that are not yet installed and whose
\* installs each take the same duration d, the secondary lane completes in at
\* least d and at most 3d, so never in a time near 8d.
C27_LaneTimeOfEight ==
    (Len(tpc) = 8 /\ TimedLaneReturned) =>
        /\ now >= InstallTime
        /\ now <= 3 * InstallTime
        /\ now < 8 * InstallTime

\* The lane of 8 packages has returned, after two rounds of installs.
C27_Witness ==
    /\ Len(tpc) = 8
    /\ TimedLaneReturned
    /\ now = 2 * InstallTime

\* The place of a system kind in the resolver's priority order.
PriorityOf(k) ==
    CASE k = "brew" -> 1
      [] k = "cask" -> 2
      [] k = "apt"  -> 3
      [] k = "dnf"  -> 4

\* C28: within the batched lane the kinds are processed in the order brew,
\* cask, apt, dnf, one invocation at a time: the invocation of a later kind
\* starts only after the invocation of every earlier kind has returned and
\* its results are recorded, and no invocation of an earlier kind follows.
C28_BatchesInPriorityOrder ==
    \A j \in LogOf("install") :
        \A i \in LogOf("install") :
            i < j =>
                /\ PriorityOf(log[i].kind) < PriorityOf(log[j].kind)
                /\ \A n \in Range(log[i].names) : \A m \in Range(log[j].names) :
                      \E a \in ResultsOf(n) : \A b \in ResultsOf(m) : a < b

\* The step has returned after the batches of two kinds.
C28_Witness ==
    /\ pc = "done"
    /\ \E i \in InstallEntries("brew") : \E j \in InstallEntries("dnf") : i < j

\* C29 as stated: for an apt method whose specifier names several packages
\* joined by whitespace, IsInstalled reports the package installed if and
\* only if all the names are in the enumerated set.
C29_AptAllNames ==
    (pureOut.op = "apt" /\ Len(Fields(pureIn.spec)) >= 2) =>
        (pureOut.result <=> (NamesOfSpec(pureIn.spec) \subseteq pureIn.installed))

\* The selected packages that have a method for the target.
Handled == selected \cap NamesFor(target)

\* C30: after a confirmed stepInstallPackages returns, a.results holds
\* exactly one result for every selected package that has a method for the
\* target and nothing else; a package of a system kind is handled by the
\* batched lane only, every other package by the secondary lane only.
C30_OneResultAcrossLanes ==
    (pc = "done" /\ Confirmed) =>
        /\ Len(results) = Cardinality(Handled)
        /\ \A n \in Handled :
              /\ Cardinality(ResultsOf(n)) = 1
              /\ IF IsSystemMethod(PackageNamed(n).Packages[target])
                 THEN /\ wpc[n] = "unspawned"
                      /\ attempts[n] = 0
                      /\ \A i \in ResultsOf(n) : IsBatchedResult(results[i])
                 ELSE /\ wpc[n] = "done"
                      /\ \A i \in LogOf("install") : n \notin Range(log[i].names)
                      /\ \A i \in ResultsOf(n) : results[i] = wres[n]

\* A confirmed step has returned with results from both lanes: a package
\* the detection found installed, one its batch installed, one of a worker.
C30_Witness ==
    /\ pc = "done"
    /\ Confirmed
    /\ \E n \in Handled : \E i \in ResultsOf(n) :
          IsBatchedResult(results[i]) /\ results[i].Status = "ok"
    /\ \E n \in Handled : \E i \in ResultsOf(n) :
          IsBatchedResult(results[i]) /\ results[i].Status = "done"
    /\ \E n \in Handled : wpc[n] = "done"

\* The lines of a text: its longest pieces without a newline, as pairs of
\* the first and the last position (an empty line has last = first - 1).
LinesOf(t) ==
    {<<a, b>> \in (1..(Len(t) + 1)) \X (0..Len(t)) :
        /\ b >= a - 1
        /\ \A i \in a..b : t[i] # NL
        /\ a = 1 \/ t[a - 1] = NL
        /\ b = Len(t) \/ t[b + 1] = NL}

\* The positions of the line that hold a symbol which is not a space.
InkOf(t, line) == {i \in line[1]..line[2] : t[i] # SP}

\* The smallest and the largest member of a set of numbers that is not empty.
Least(S) == CHOOSE x \in S : \A y \in S : x <= y

Greatest(S) == CHOOSE x \in S : \A y \in S : x >= y

\* The line without the spaces around it.
TrimmedLine(t, line) == SubSeq(t, Least(InkOf(t, line)), Greatest(InkOf(t, line)))

\* The first token of the line: from its first symbol that is no space up to
\* the symbol before the next space.
FirstToken(t, line) ==
    LET first == Least(InkOf(t, line))
    IN  SubSeq(t, first,
               Greatest({j \in first..line[2] : \A i \in first..j : t[i] # SP}))

\* The lines of a text that are not blank.
NonBlank(t) == {line \in LinesOf(t) : InkOf(t, line) # {}}

\* C31: parseLines yields exactly the set of whitespace-trimmed non-empty
\* lines of the enumeration output, and parseFirstWord exactly the set of the
\* first whitespace-delimited tokens of its non-blank lines; for the output
\* "foo\nbar\n" of a line-oriented kind, foo and bar are reported installed
\* and every other name is not.
C31_ParsedKeys ==
    pureOut.op = "parse" =>
        /\ pureOut.lines = {TrimmedLine(pureIn.text, l) : l \in NonBlank(pureIn.text)}
        /\ pureOut.words = {FirstToken(pureIn.text, l) : l \in NonBlank(pureIn.text)}
        /\ pureIn.text = <<"foo", NL, "bar", NL>> =>
              \A name \in {W("foo"), W("bar"), W("baz"), <<"foo", NL>>, <<>>} :
                  IsInstalledIn(BrewMethod(name), pureOut.lines)
                      <=> name \in {W("foo"), W("bar")}

\* A line with spaces around a name and a space inside: the trimmed line and
\* its first token differ.
C31_Witness ==
    /\ pureOut.op = "parse"
    /\ pureIn.text = <<SP, "foo", SP, "bar">>
    /\ pureOut.lines = {<<"foo", SP, "bar">>}
    /\ pureOut.words = {W("foo")}

\* The identifier of a go_tool or eget method.
IdentOf(method) ==
    IF MethodName(method) = "go_tool" THEN method.GoTool ELSE method.Eget

\* The last path segment of an identifier, as its first and last position.
LastSegment(id) ==
    <<Greatest({0} \cup {i \in 1..Len(id) : id[i] = "/"}) + 1, Len(id)>>

\* The executable the detection of a go_tool or eget method expects: the last
\* path segment, for go_tool cut before its first "@".
ExpectedExecutable(method) ==
    LET id == IdentOf(method)
        seg == LastSegment(id)
        cut == Least({i \in seg[1]..seg[2] : id[i] = "@"} \cup {seg[2] + 1})
    IN  IF MethodName(method) = "go_tool"
        THEN SubSeq(id, seg[1], cut - 1)
        ELSE SubSeq(id, seg[1], seg[2])

\* C32: for go_tool and eget methods, IsInstalled checks directly whether the
\* executable named by the identifier's last path segment (for go_tool with
\* the @version suffix removed) exists, and leaves the detection cache as it
\* is: no loader runs, no entry is added, and the answer is the same on every
\* cache.
C32_DirectProbe ==
    (pureOut.op = "probe" /\ MethodName(pureIn.method) \in {"go_tool", "eget"}) =>
        /\ pureOut.probe.answer <=> ExpectedExecutable(pureIn.method) \in pureIn.commands
        /\ pureOut.probe.cache = pureIn.cache
        /\ pureOut.probe.ran = {}
        /\ \A c \in ProbeCaches :
              IsInstalledOn(pureIn.method, c, pureIn.commands,
                            [k \in CacheKinds |-> <<>>]).answer = pureOut.probe.answer

\* The go_tool a/tool@a on a machine that has the command tool, with the
\* cargo set memoized: installed, and the cache still holds only cargo.
C32_Witness ==
    /\ pureOut.op = "probe"
    /\ pureIn.method = GoToolMethod(<<"a", "/", "tool", "@", "a">>)
    /\ pureIn.commands = {W("tool")}
    /\ DOMAIN pureIn.cache = {"cargo"}
    /\ pureOut.probe.answer

\* The places of the returned categories where the package is: category and
\* position.
PlacesOf(pkg, categories) ==
    {<<c, j>> \in (1..Len(categories)) \X (1..MaxPkgs) :
        j <= Len(categories[c].Packages) /\ categories[c].Packages[j] = pkg}

\* The place of a category in the priority order, "Other" after all.
PlaceInOrder(name) ==
    IF name = "Other" THEN Len(categoryOrder) + 1
    ELSE CHOOSE i \in 1..Len(categoryOrder) : categoryOrder[i] = name

\* C33: categorizePackages partitions its input: every input package is in
\* exactly one returned category, the one its name maps to in the table or
\* "Other"; the categories hold nothing else; no returned category is empty;
\* the named categories come in the priority order with "Other" last; and
\* the input slice is as it was.
C33_CategoriesPartition ==
    pureOut.op = "categorize" =>
        LET cats == pureOut.out.categories
        IN  /\ \A i \in 1..Len(pureIn.pkgs) :
                  /\ Cardinality(PlacesOf(pureIn.pkgs[i], cats)) = 1
                  /\ \A p \in PlacesOf(pureIn.pkgs[i], cats) :
                        cats[p[1]].Name = CategoryOf(pureIn.pkgs[i].Name)
            /\ \A c \in 1..Len(cats) :
                  /\ cats[c].Packages # <<>>
                  /\ Range(cats[c].Packages) \subseteq Range(pureIn.pkgs)
                  /\ cats[c].Name \in Range(categoryOrder) \cup {"Other"}
                  /\ \A d \in 1..Len(cats) :
                        c < d => PlaceInOrder(cats[c].Name) < PlaceInOrder(cats[d].Name)
            /\ pureOut.out.pkgs = pureIn.pkgs

\* An unknown tool, a utility and a system tool, given in that order, come
\* back as System Tools, Utilities, Other.
C33_Witness ==
    /\ pureOut.op = "categorize"
    /\ Len(pureIn.pkgs) = 3
    /\ pureIn.pkgs[1].Name = "mytool"
    /\ pureIn.pkgs[2].Name = "eget"
    /\ pureIn.pkgs[3].Name = "git"
    /\ [c \in 1..Len(pureOut.out.categories) |-> pureOut.out.categories[c].Name]
          = <<"System Tools", "Utilities", "Other">>

\* The statuses recorded for the packages of the install invocation at
\* position i of the log.
StatusesOfBatch(i) ==
    {results[j].Status : j \in UNION {ResultsOf(n) : n \in Range(log[i].names)}}

\* C34: in the batched lane the pending packages of one kind share one
\* outcome: when the kind's invocation returns an error every one of them is
\* recorded fail, when it succeeds every one is recorded done; never is one
\* recorded done while another of the same batch is recorded fail.
C34_BatchSharesOutcome ==
    \A i \in LogOf("install") :
        /\ StatusesOfBatch(i) = {IF log[i].err THEN "fail" ELSE "done"}
        /\ \A n \in Range(log[i].names) : Cardinality(ResultsOf(n)) = 1
        /\ Range(log[i].names) = Range(pending[log[i].kind].names)

\* The step has returned after a batch of two packages failed: both are
\* recorded fail.
C34_Witness ==
    /\ pc = "done"
    /\ \E i \in LogOf("install") :
          /\ log[i].err
          /\ Len(log[i].names) >= 2
          /\ StatusesOfBatch(i) = {"fail"}

\* The user answered the confirmation prompt of the step with "Yes".
AnsweredYes == \E i \in LogOf("confirm") : log[i].kind = "yes"

\* The step may run commands: a selected package has a method for the
\* target and the user confirmed.
MayRunCommands == Handled # {} /\ AnsweredYes

\* C35: stepInstallPackages executes no tap registration, index refresh,
\* enumeration or install command unless at least one selected package has a
\* method for the target and the user answered the confirmation prompt
\* affirmatively; on decline it returns nil with a.results unchanged.  No such
\* command is in the log, no package was detected or installed and no worker
\* started before that, no step of stepInstallPackages runs a loader before
\* that, and after "Skip" the step has returned nil with a.results empty as
\* at its start.
C35_NothingWithoutConfirmation ==
    /\ [](~MayRunCommands =>
            /\ LogOf("lookpath") \cup LogOf("tap") \cup LogOf("update")
                   \cup LogOf("install") = {}
            /\ \A n \in Names :
                  detected[n] = "none" /\ attempts[n] = 0 /\ wpc[n] = "unspawned"
            /\ results = <<>>)
    /\ []((\E i \in LogOf("confirm") : log[i].kind = "skip") =>
            pc = "done" /\ ret = "nil" /\ results = <<>>)
    /\ [][(pc # "proton" /\ ~MayRunCommands') => loads' = loads /\ cache' = cache]_vars

\* The user declined the installation of selected packages: the step has
\* returned nil.
C35_Witness ==
    /\ pc = "done"
    /\ ret = "nil"
    /\ Handled # {}
    /\ \E i \in LogOf("confirm") : log[i].kind = "skip"

\* Every external command of the run exits.
AllCommandsExit == hung = NoHang

\* wg.Wait has returned and the step with it: no slot of the semaphore is
\* held, the cache mutex is free and every worker has recorded its result.
LaneReturned ==
    /\ pc = "done"
    /\ ret = "nil"
    /\ sem = {}
    /\ cacheMu = NoWorker
    /\ WorkersDone
    /\ Len(results) = Len(Secondary)

\* C36: if every external command terminates, the secondary lane terminates
\* for any number of secondary packages (including more than 4): the
\* semaphore, the result mutex and the cache mutex never deadlock, every
\* acquired semaphore slot is released, and wg.Wait eventually returns.  Once
\* the goroutines are started, the step eventually returns with every slot
\* given back, the cache mutex free and one result per worker.
C36_LaneTerminates == (AllCommandsExit /\ pc = "wait") ~> LaneReturned

\* A lane of more workers than the semaphore has slots has returned.
C36_Witness == AllCommandsExit /\ LaneReturned /\ Len(Secondary) > SemCap

\* The install command of the worker named by hung was started and never
\* exits.
BlockedOnInstall == hung.cmd = "install" /\ wpc[hung.worker] = "blocked"

\* The enumeration command of the worker named by hung was started, inside
\* cache.get, and never exits.
BlockedOnEnum == hung.cmd = "enum" /\ wpc[hung.worker] = "loading"

\* Worker w is another started worker than the one whose command never exits.
OtherWorker(w) == w # hung.worker /\ wpc[w] # "unspawned"

\* Worker w has yet to get through cache.get.
BeforeCacheGet(w) ==
    /\ MethodName(MethodOf(PackageNamed(w))) \in CacheKinds
    /\ wpc[w] \in {"spawned", "install"}

StartsSideEffect == pureOut.cmds \cap SideEffects # {}

\* The message of the call of Update that has just returned is a press of one
\* of the given keys.
Pressed(keys) == pureIn.op = "update" /\ pureIn.msg.type = "tea.KeyMsg" /\ pureIn.msg.key \in keys

\* C38: in the aicommit and aipr state machines, the side-effecting action
\* (git commit, git push, PR creation) is started only by a y/Y/enter key
\* press while in phaseConfirm; no sequence of messages starts it from
\* phaseGenerating, phaseReady, phaseActing, phaseResult or phaseError, and
\* answering n/N/esc in phaseConfirm returns to phaseReady without running
\* anything.  Whatever messages came before, a call of Update that returns a
\* side-effecting command was made in phaseConfirm with y, Y or enter, it
\* returns one such command, and a call in phaseConfirm with n, N or esc
\* returns phaseReady and no command.
C38_ActionOnlyOnConfirm ==
    pureOut.op = "update" =>
       /\ StartsSideEffect =>
             /\ pureOut.before.phase = "confirm"
             /\ Pressed({"y", "Y", "enter"})
             /\ pureOut.model.phase = "acting"
             /\ Cardinality(pureOut.cmds \cap SideEffects) = 1
       /\ (pureOut.before.phase = "confirm" /\ Pressed({"n", "N", "esc"})) =>
             /\ pureOut.model.phase = "ready"
             /\ pureOut.cmds = {}

\* A push was confirmed after a commit: the second side effect of a run of
\* aicommit starts, from phaseConfirm.
C38_Witness ==
    /\ pureOut.op = "update"
    /\ pureOut.model.tool = "aicommit"
    /\ pureOut.cmds \cap SideEffects = {"runPush"}
    /\ pureOut.before.phase = "confirm"
    /\ pureOut.model.body = "edited"

\* The lines of a config that set custom-shader: those that start with the
\* key, then "=" after spaces if any.
IsShaderSetting(line) ==
    /\ line # <<>>
    /\ line[1] = shaderKey
    /\ \E i \in 2..Len(line) : line[i] = "=" /\ \A j \in 2..(i - 1) : line[j] = SP

\* The value a shader setting gives: what follows its "=", trimmed.
SettingValue(line) ==
    LET eq == CHOOSE i \in 2..Len(line) : line[i] = "=" /\ \A j \in 2..(i - 1) : line[j] = SP
    IN  TrimSpace(SubSeq(line, eq + 1, Len(line)))

\* The custom-shader settings of a config, in order.
ShaderSettings(content) ==
    LET lines == SplitLines(content)
        at == {i \in 1..Len(lines) : IsShaderSetting(lines[i])}
        Nth[k \in 0..Len(lines)] ==
            IF k = 0 THEN <<>>
            ELSE IF k \in at THEN Append(Nth[k - 1], SettingValue(lines[k])) ELSE Nth[k - 1]
    IN  Nth[Len(lines)]

\* The lines of a config that are no custom-shader settings, in order.
OtherLines(content) ==
    LET lines == SplitLines(content)
        Nth[k \in 0..Len(lines)] ==
            IF k = 0 THEN <<>>
            ELSE IF IsShaderSetting(lines[k]) THEN Nth[k - 1] ELSE Append(Nth[k - 1], lines[k])
    IN  Nth[Len(lines)]

\* Start found Ghostty running, and wrote and reloaded where it had to.
StartSucceeded == pureIn.running /\ pureIn.writes /\ pureIn.reloads

\* The statement of C39: for every Ghostty config content, shader.Start
\* followed by Session.Stop restores the configured custom-shader setting to
\* its original value (the config's shader settings after Stop equal those
\* before Start), and between Start and Stop the configured shader is the
\* snow shader whenever Ghostty is running and reload succeeds.
C39_StartStopRestores ==
    pureOut.op = "shader" =>
       /\ pureOut.stage = "stopped" =>
             ShaderSettings(pureOut.file) = ShaderSettings(pureIn.content)
       /\ (pureOut.stage = "started" /\ StartSucceeded) =>
             /\ ShaderSettings(pureOut.file) # <<>>
             /\ \A i \in 1..Len(ShaderSettings(pureOut.file)) :
                   ShaderSettings(pureOut.file)[i] = <<snowShader>>

\* A config with one custom-shader setting, of a shader: Start and Stop do
\* what C39 says, and no other line changes.
OneSettingRestored ==
    (/\ pureOut.op = "shader"
     /\ Len(ShaderSettings(pureIn.content)) = 1
     /\ ShaderSettings(pureIn.content)[1] # <<>>) =>
       /\ C39_StartStopRestores
       /\ pureOut.stage = "stopped" => OtherLines(pureOut.file) = OtherLines(pureIn.content)

====
